---------------------------- MODULE Spec2Model ----------------------------
(***************************************************************************)
(* A model of turnupd, the Turn Up mixer daemon: the framed serial         *)
(* protocol parser, the MPRIS-first / PulseAudio-fallback audio facade,    *)
(* the knob dispatcher with its LED feedback, and the reconciliation pass  *)
(* of the main loop.                                                       *)
(*                                                                         *)
(* Volumes and normalised knob positions are fixed-point numbers in units  *)
(* of 1/10000 (the code rounds them to 4 decimal places).  Times are in    *)
(* units of 100 ms.  Bytes are the integers 0..255.  Names are tuples of   *)
(* one-character strings.                                                  *)
(***************************************************************************)
EXTENDS Integers, Sequences, FiniteSets, TLC

VARIABLES
    \* ---- serial line and protocol parser (turnupd.py, main / parse_messages)
    sent,       \* every byte the device has written to the serial line
    pos,        \* how many of them the host has read so far
    script,     \* the messages whose complete frames are among the bytes sent
    kind,       \* how sent was composed: "frames", "raw", "mixed", "truncated"
    buf,        \* main(): buf, the byte buffer of the main loop
    data,       \* main(): data, the chunk returned by the last ser.read
    messages,   \* main(): messages, the batch returned by the last parse_messages
    log,        \* every message emitted since the connection was opened
    aligned,    \* TRUE while every read so far has ended on a frame boundary
    \* ---- the audio subsystem and the media players, outside the daemon
    sinkInputs, \* the volumes of the active streams, in sink_input_list order
    devices,    \* the sinks and sources: volume, mute flag, current defaults
    paUp,       \* FALSE while calls on the mutation connection raise
    livePlayers,\* the players playerctl --list-all prints, in its order
    playerctl,  \* "ok", or "fail" while the utility is missing or times out
    slider,     \* the internal volume slider of each media player
    now,        \* time.monotonic()
    \* ---- audio facade (audio.py, MPRISController / PulseController)
    mpris,      \* PulseController._mpris is set
    players,    \* MPRISController._players, the cached player list
    playersTs,  \* MPRISController._players_ts
    call,       \* the last facade call: its name and arguments
    ret,        \* what it returned: <<>> for None, <<v>> for a value
    trace,      \* the backend calls it made, in order
    \* ---- the daemon (turnupd.py, main and its handlers)
    pc,         \* where main() is: "connect", "read" or "trigger"
    knob_norms, \* main(): knob_norms
    eventQ,     \* PulseController._event_q
    last_reapply, \* main(): last_reapply
    leds,       \* the LED packets the last step wrote to the serial port
    shown,      \* the colours of the last LED packet written
    sinceKnob,  \* the time since handle_knob last ran
    pass,       \* the reconciliation pass just run: what triggered it
    lastPass,   \* <<writes>> of the last pass while nothing it reads has changed
    \* ---- the life of the process (turnupd.py, main; audio.py, close)
    config_mtime,      \* main(): config_mtime, <<>> for None
    st_mtime,          \* os.stat(DEFAULT_CONFIG_PATH).st_mtime, <<>> while stat raises
    last_config_check, \* main(): last_config_check
    stop_event,        \* PulseController._stop_event is set
    pulse_closed,      \* PulseController._pulse has been closed
    ser_ok,            \* FALSE while ser.write raises serial.SerialException
    \* ---- one run of drain_events (audio.py), with the watcher pushing
    had_events, \* drain_events(): had_events
    taken,      \* the indices get_nowait has returned to this run
    pushed,     \* the indices the watcher has put on the queue since the run began
    \* ---- the watcher threads (audio.py, start_watching / _event_loop)
    threads,        \* every thread start_watching has started: where it is
    watcher_thread  \* PulseController._watcher_thread: its index, 0 for None

parserVars == <<sent, pos, script, kind, buf, data, messages, log, aligned>>
worldVars == <<sinkInputs, devices, paUp, livePlayers, playerctl, slider, now>>
facadeVars == <<mpris, players, playersTs, call, ret, trace>>
daemonVars == <<pc, knob_norms, eventQ, last_reapply, leds, shown, sinceKnob, pass,
                lastPass>>
lifeVars == <<config_mtime, st_mtime, last_config_check, stop_event, pulse_closed,
              ser_ok>>
drainVars == <<had_events, taken, pushed, threads, watcher_thread>>

vars == <<sent, pos, script, kind, buf, data, messages, log, aligned,
          sinkInputs, devices, paUp, livePlayers, playerctl, slider, now,
          mpris, players, playersTs, call, ret, trace,
          pc, knob_norms, eventQ, last_reapply, leds, shown, sinceKnob, pass, lastPass,
          config_mtime, st_mtime, last_config_check, stop_event, pulse_closed,
          ser_ok,
          had_events, taken, pushed, threads, watcher_thread>>

-----------------------------------------------------------------------------
(* Bounds of the model *)

MaxFrames == 3      \* frames on the wire of a "frames" run
MaxRaw == 4         \* bytes on the wire of a "raw" run
MaxGarbage == 2     \* garbage bytes in front of the frame of a "mixed" run

MaxNow == 60        \* the clock stops advancing here
MaxQueue == 1       \* events waiting in the watcher's queue
MaxThreads == 2     \* threads start_watching starts in a run
MaxErrors == 2      \* errors one watcher thread meets while listening

-----------------------------------------------------------------------------
(* Program constants *)

KNOB_MAX == 1012
NUM_KNOBS == 5
\* 1.0 in the fixed-point unit of volumes: round(x, 4) keeps 4 decimals.
ONE == 10000
VOLUME_MAX == ONE
\* MPRISController._CACHE_TTL, 3.0 s
CACHE_TTL == 30

-----------------------------------------------------------------------------
(* Generic helpers *)

Min(a, b) == IF a < b THEN a ELSE b
Max(a, b) == IF a > b THEN a ELSE b
Abs(a) == IF a < 0 THEN -a ELSE a

\* All sequences over S of length lo..hi
SeqsOf(S, lo, hi) == UNION {[1..n -> S] : n \in lo..hi}

RECURSIVE Concat(_)
Concat(ss) == IF ss = <<>> THEN <<>> ELSE Head(ss) \o Concat(Tail(ss))

-----------------------------------------------------------------------------
(* Names: application names, stream properties, player identifiers *)

\* str.lower() on the letters the model's names use.
LowerChar(c) ==
    IF c = "B" THEN "b" ELSE IF c = "P" THEN "p" ELSE IF c = "R" THEN "r"
    ELSE IF c = "S" THEN "s" ELSE c

IdentityChar(c) == c

Lower(str) == [k \in 1..Len(str) |-> LowerChar(str[k])]

\* needle in hay: needle is a contiguous substring of hay.
IsInfix(needle, hay) ==
    \E k \in 0..(Len(hay) - Len(needle)) :
        SubSeq(hay, k + 1, k + Len(needle)) = needle

\* Application names as a configuration gives them.
AppBr == <<"b", "r">>
AppSP == <<"S", "P">>
AppZz == <<"z", "z">>
Apps == {AppBr, AppSP, AppZz}

\* The streams: application.name and application.process.binary of each.
\* Stream 1 matches "br" by name (in another case), stream 2 by binary only,
\* stream 3 matches "sp" by both.
StreamProps ==
    << [name |-> <<"B", "r">>,      binary |-> <<"b", "r", "v">>],
       [name |-> <<"w", "e", "b">>, binary |-> <<"x", "B", "R">>],
       [name |-> <<"S", "p">>,      binary |-> <<"s", "p">>] >>

\* Which streams belong to which application of the model, written out.
Owns(app, k) ==
    \/ app = AppBr /\ k \in {1, 2}
    \/ app = AppSP /\ k = 3

\* Player identifiers: two instances of the "sp" player.
PlayerSp == <<"m", ".", "S", "p">>
PlayerSp2 == <<"m", ".", "s", "p", "2">>
\* A player whose name holds the names of all three applications.
PlayerAll == <<"z", "z", "b", "r", "s", "p">>
PlayerIds == {PlayerSp, PlayerSp2, PlayerAll}
PlayerLists == {<<>>, <<PlayerSp>>, <<PlayerSp, PlayerSp2>>}

-----------------------------------------------------------------------------
(* Audio facade: MPRISController and PulseController *)

Clamp(v, lo, hi) == Max(lo, Min(hi, v))

\* One backend call of a trace.
PlayerctlCall(fn, player, vol, ok) ==
    [fn |-> fn, player |-> player, stream |-> 0, device |-> "", vol |-> vol,
     was |-> 0, ok |-> ok]
PulseCall(fn, ok) ==
    [fn |-> fn, player |-> <<>>, stream |-> 0, device |-> "", vol |-> 0,
     was |-> 0, ok |-> ok]
\* volume_set_all_chans on stream k, whose volume was `was`
StreamWrite(k, vol, was) ==
    [fn |-> "volume_set_all_chans", player |-> <<>>, stream |-> k, device |-> "",
     vol |-> vol, was |-> was, ok |-> TRUE]
\* a call on a sink or a source
DeviceCall(fn, device, vol, ok) ==
    [fn |-> fn, player |-> <<>>, stream |-> 0, device |-> device, vol |-> vol,
     was |-> 0, ok |-> ok]

\* The part of the state a facade call reads and writes, threaded through the
\* calls of one handler.
Audio ==
    [players |-> players, playersTs |-> playersTs, slider |-> slider,
     inputs |-> sinkInputs, devices |-> devices, trace |-> <<>>]

\* MPRISController._run: does playerctl exit with status 0 for this player?
RunOk(player) == playerctl = "ok" /\ \E k \in 1..Len(livePlayers) : livePlayers[k] = player

\* _refresh_players still returning early when exactly _CACHE_TTL has passed.
RefreshPlayersLate(a, force) ==
    IF ~force /\ (now - a.playersTs) <= CACHE_TTL THEN a
    ELSE [a EXCEPT !.players = IF playerctl = "ok" THEN livePlayers ELSE <<>>,
                   !.playersTs = now,
                   !.trace = Append(@, PlayerctlCall("list", <<>>, 0, playerctl = "ok"))]

\* MPRISController._refresh_players
RefreshPlayers(a, force) ==
    IF ~force /\ (now - a.playersTs) < CACHE_TTL THEN a
    ELSE [a EXCEPT !.players = IF playerctl = "ok" THEN livePlayers ELSE <<>>,
                   !.playersTs = now,
                   !.trace = Append(@, PlayerctlCall("list", <<>>, 0, playerctl = "ok"))]

\* The loop of find_player returning the last match instead of the first.
LastPlayer(cache, needle) ==
    LET hits == {k \in 1..Len(cache) : IsInfix(needle, Lower(cache[k]))} IN
    IF hits = {} THEN <<>>
    ELSE <<cache[CHOOSE k \in hits : \A j \in hits : k >= j]>>

\* The loop of MPRISController.find_player: <<>> for None, <<player>> otherwise.
FirstPlayer(cache, needle) ==
    LET hits == {k \in 1..Len(cache) : IsInfix(needle, Lower(cache[k]))} IN
    IF hits = {} THEN <<>>
    ELSE <<cache[CHOOSE k \in hits : \A j \in hits : k <= j]>>

\* MPRISController.find_player: the new state and the value returned.
find_player(a, app) ==
    LET a1 == RefreshPlayers(a, FALSE) IN
    [a |-> a1, value |-> FirstPlayer(a1.players, Lower(app))]

\* MPRISController.set_volume: the new state and the value returned.
MprisSetVolume(a, app, volume) ==
    LET a1 == RefreshPlayers(a, FALSE)
        found == FirstPlayer(a1.players, Lower(app))
    IN IF found = <<>> THEN [a |-> a1, ok |-> FALSE]
       ELSE LET player == found[1]
                v == Clamp(volume, 0, ONE)
                ok == RunOk(player)
            IN [a |-> [a1 EXCEPT !.slider[player] = IF ok THEN v ELSE @,
                                 !.trace = Append(@, PlayerctlCall("set", player, v, ok))],
                ok |-> ok]

\* get_volume without the except clause: the ValueError of float() leaves it.
MprisGetVolumeUncaught(a, app, reply) ==
    LET a1 == RefreshPlayers(a, FALSE)
        found == FirstPlayer(a1.players, Lower(app))
    IN IF found = <<>> THEN [a |-> a1, value |-> <<>>]
       ELSE LET player == found[1]
                ok == RunOk(player)
                a2 == [a1 EXCEPT !.trace = Append(@, PlayerctlCall("get", player, 0, ok))]
            IN IF ~ok \/ reply = "empty" THEN [a |-> a2, value |-> <<>>]
               ELSE IF reply = "text" THEN [a |-> a2, value |-> <<"ValueError">>]
               ELSE [a |-> a2, value |-> <<Clamp(a2.slider[player], 0, ONE)>>]

\* MPRISController.get_volume; reply is what playerctl prints: "number" (the
\* slider), "text" (not a number) or "empty".
MprisGetVolume(a, app, reply) ==
    LET a1 == RefreshPlayers(a, FALSE)
        found == FirstPlayer(a1.players, Lower(app))
    IN IF found = <<>> THEN [a |-> a1, value |-> <<>>]
       ELSE LET player == found[1]
                ok == RunOk(player)
                a2 == [a1 EXCEPT !.trace = Append(@, PlayerctlCall("get", player, 0, ok))]
            IN IF ~ok \/ reply = "empty" THEN [a |-> a2, value |-> <<>>]
               ELSE IF reply = "text" THEN [a |-> a2, value |-> <<>>]
               ELSE [a |-> a2, value |-> <<Clamp(a2.slider[player], 0, ONE)>>]

\* needle in name.lower() or needle in binary.lower()
Matches(needle, k) ==
    \/ IsInfix(needle, Lower(StreamProps[k].name))
    \/ IsInfix(needle, Lower(StreamProps[k].binary))

\* The streams a fallback pass over sink_input_list writes.
FirstMatchOnly(needle, n) ==
    LET hits == {k \in 1..n : Matches(needle, k)} IN
    {k \in hits : \A j \in hits : k <= j}
MatchingInputs(needle, n) == {k \in 1..n : Matches(needle, k)}

\* The trace of volume_set_all_chans calls on the streams of set S, in list order.
RECURSIVE WriteCalls(_, _, _, _)
WriteCalls(S, k, inputs, v) ==
    IF k > Len(inputs) THEN <<>>
    ELSE (IF k \in S THEN <<StreamWrite(k, v, inputs[k])>> ELSE <<>>)
         \o WriteCalls(S, k + 1, inputs, v)

\* The fallback of PulseController.set_app_volume: the try block.
PulseSetApp(a, app, v) ==
    IF ~paUp
    THEN [a EXCEPT !.trace = Append(@, PulseCall("sink_input_list", FALSE))]
    ELSE LET n == Len(a.inputs)
             S == MatchingInputs(Lower(app), n)
         IN [a EXCEPT !.inputs = [k \in 1..n |-> IF k \in S THEN v ELSE a.inputs[k]],
                      !.trace = Append(@, PulseCall("sink_input_list", TRUE))
                                \o WriteCalls(S, 1, a.inputs, v)]

\* PulseController.set_app_volume without the early return.
SetAppVolumeNoReturn(a, app, volume) ==
    LET v == Clamp(volume, 0, VOLUME_MAX) IN
    IF mpris THEN PulseSetApp(MprisSetVolume(a, app, v).a, app, v)
    ELSE PulseSetApp(a, app, v)

\* PulseController.set_app_volume
SetAppVolume(a, app, volume) ==
    LET v == Clamp(volume, 0, VOLUME_MAX) IN
    IF mpris
    THEN LET r == MprisSetVolume(a, app, v) IN
         IF r.ok THEN r.a ELSE PulseSetApp(r.a, app, v)
    ELSE PulseSetApp(a, app, v)

\* The fallback of PulseController.get_app_volume_norm: the volume of the
\* first matching stream, capped.
PulseGetAppUncapped(a, app) ==
    IF ~paUp
    THEN [a |-> [a EXCEPT !.trace = Append(@, PulseCall("sink_input_list", FALSE))],
          value |-> <<>>]
    ELSE LET hits == MatchingInputs(Lower(app), Len(a.inputs))
             a1 == [a EXCEPT !.trace = Append(@, PulseCall("sink_input_list", TRUE))]
         IN IF hits = {} THEN [a |-> a1, value |-> <<>>]
            ELSE [a |-> a1,
                  value |-> <<a.inputs[CHOOSE k \in hits : \A j \in hits : k <= j]>>]

PulseGetApp(a, app) ==
    IF ~paUp
    THEN [a |-> [a EXCEPT !.trace = Append(@, PulseCall("sink_input_list", FALSE))],
          value |-> <<>>]
    ELSE LET hits == MatchingInputs(Lower(app), Len(a.inputs))
             a1 == [a EXCEPT !.trace = Append(@, PulseCall("sink_input_list", TRUE))]
         IN IF hits = {} THEN [a |-> a1, value |-> <<>>]
            ELSE [a |-> a1,
                  value |-> <<Min(ONE, (a.inputs[CHOOSE k \in hits : \A j \in hits : k <= j]
                                         * ONE) \div VOLUME_MAX)>>]

\* PulseController.get_app_volume_norm
GetAppVolumeNorm(a, app, reply) ==
    IF mpris
    THEN LET r == MprisGetVolume(a, app, reply) IN
         IF r.value # <<>> THEN r ELSE PulseGetApp(r.a, app)
    ELSE PulseGetApp(a, app)

-----------------------------------------------------------------------------
(* Device volume and mute: PulseController on sinks and sources *)

\* The sinks and sources of the machine.
SinkNames == {"hdmi", "usb"}
SourceNames == {"mic", "cam"}
StartDevices ==
    [sinks |-> [n \in SinkNames |-> [vol |-> IF n = "hdmi" THEN 5000 ELSE ONE,
                                     mute |-> FALSE]],
     sources |-> [n \in SourceNames |-> [vol |-> ONE, mute |-> FALSE]],
     defaultSink |-> "hdmi",
     defaultSource |-> "mic"]

\* The lookup with the default resolved once, when the controller was built.
ResolveSinkCached(a, name) ==
    LET n == IF name = "default" THEN StartDevices.defaultSink ELSE name IN
    IF paUp /\ n \in SinkNames THEN <<n>> ELSE <<>>

\* The sink a name resolves to: <<>> when the lookup raises.
ResolveSink(a, name) ==
    LET n == IF name = "default" THEN a.devices.defaultSink ELSE name IN
    IF paUp /\ n \in SinkNames THEN <<n>> ELSE <<>>

ResolveSource(a, name) ==
    LET n == IF name = "default" THEN a.devices.defaultSource ELSE name IN
    IF paUp /\ n \in SourceNames THEN <<n>> ELSE <<>>

\* PulseController.set_sink_volume
SetSinkVolume(a, name, volume) ==
    LET v == Clamp(volume, 0, VOLUME_MAX)
        r == ResolveSink(a, name)
    IN IF r = <<>>
       THEN [a EXCEPT !.trace = Append(@, DeviceCall("get_sink_by_name", name, 0, FALSE))]
       ELSE [a EXCEPT !.devices.sinks[r[1]].vol = v,
                      !.trace = Append(@, DeviceCall("sink_volume_set", r[1], v, TRUE))]

\* PulseController.set_source_volume
SetSourceVolume(a, name, volume) ==
    LET v == Clamp(volume, 0, ONE)
        r == ResolveSource(a, name)
    IN IF r = <<>>
       THEN [a EXCEPT !.trace = Append(@, DeviceCall("get_source_by_name", name, 0, FALSE))]
       ELSE [a EXCEPT !.devices.sources[r[1]].vol = v,
                      !.trace = Append(@, DeviceCall("source_volume_set", r[1], v, TRUE))]

\* toggle_mute_sink muting instead of inverting.
ToggleMuteSinkOn(a, name) ==
    LET r == ResolveSink(a, name) IN
    IF r = <<>>
    THEN [a EXCEPT !.trace = Append(@, DeviceCall("get_sink_by_name", name, 0, FALSE))]
    ELSE [a EXCEPT !.devices.sinks[r[1]].mute = TRUE,
                   !.trace = Append(@, DeviceCall("sink_mute", r[1], 0, TRUE))]

\* PulseController.toggle_mute_sink
ToggleMuteSink(a, name) ==
    LET r == ResolveSink(a, name) IN
    IF r = <<>>
    THEN [a EXCEPT !.trace = Append(@, DeviceCall("get_sink_by_name", name, 0, FALSE))]
    ELSE [a EXCEPT !.devices.sinks[r[1]].mute = ~@,
                   !.trace = Append(@, DeviceCall("sink_mute", r[1], 0, TRUE))]

\* PulseController.toggle_mute_source
ToggleMuteSource(a, name) ==
    LET r == ResolveSource(a, name) IN
    IF r = <<>>
    THEN [a EXCEPT !.trace = Append(@, DeviceCall("get_source_by_name", name, 0, FALSE))]
    ELSE [a EXCEPT !.devices.sources[r[1]].mute = ~@,
                   !.trace = Append(@, DeviceCall("source_mute", r[1], 0, TRUE))]

\* PulseController.get_sink_volume_norm / get_source_volume_norm
GetSinkVolumeNorm(a, name) ==
    LET r == ResolveSink(a, name) IN
    IF r = <<>> THEN <<>>
    ELSE <<Min(ONE, (a.devices.sinks[r[1]].vol * ONE) \div VOLUME_MAX)>>

GetSourceVolumeNorm(a, name) ==
    LET r == ResolveSource(a, name) IN
    IF r = <<>> THEN <<>> ELSE <<Min(ONE, a.devices.sources[r[1]].vol)>>

-----------------------------------------------------------------------------
(* Configuration: the validated structure load_config returns *)

KnobIds == 0..(NUM_KNOBS - 1)

\* [leds]: the global LED block
GlobalLeds == [mode |-> "volume", low_color |-> <<255, 0, 0>>, high_color |-> <<0, 255, 0>>]

\* [knobs.N]: the default configuration with short application names, led
\* blocks on knobs 0 and 3, and no entry for knob 4.  A led block holds only
\* the fields the file sets; [none |-> TRUE] stands for a knob without one.
ConfigKnobs ==
    [id \in 0..3 |->
        IF id = 0 THEN [action |-> "sink_volume", target |-> "default", targets |-> <<>>,
                        led |-> [mode |-> "static", high_color |-> <<0, 0, 255>>]]
        ELSE IF id = 1 THEN [action |-> "group_volume", target |-> "default",
                             targets |-> <<AppSP, AppZz>>, led |-> [none |-> TRUE]]
        ELSE IF id = 2 THEN [action |-> "app_volume", target |-> AppBr, targets |-> <<>>,
                             led |-> [none |-> TRUE]]
        ELSE [action |-> "source_volume", target |-> "default", targets |-> <<>>,
              led |-> [mode |-> "off"]]]

\* [buttons.N]; button 2 mutes a sink by its name, button 3 has no entry.
ConfigButtons ==
    [id \in {0, 1, 2, 4} |->
        IF id = 0 THEN [action |-> "mute_sink", target |-> "default"]
        ELSE IF id = 1 THEN [action |-> "command", target |-> "playerctl previous"]
        ELSE IF id = 2 THEN [action |-> "mute_sink", target |-> "usb"]
        ELSE [action |-> "mute_source", target |-> "default"]]

-----------------------------------------------------------------------------
(* LED feedback: config.get_knob_led_cfg, config.get_led_color, turnupd *)

LEDS_PER_KNOB == 3

\* config._validate_color
ValidateColor(color, fallback) ==
    IF Len(color) = 3 /\ \A k \in 1..3 : color[k] \in 0..255 THEN color ELSE fallback

\* config._validate_leds
ValidateLeds(block) ==
    [mode |-> IF block.mode \in {"volume", "static", "off"} THEN block.mode ELSE "volume",
     low_color |-> ValidateColor(block.low_color, <<255, 0, 0>>),
     high_color |-> ValidateColor(block.high_color, <<0, 255, 0>>)]

\* config.get_knob_led_cfg
get_knob_led_cfg(id) ==
    IF id \notin DOMAIN ConfigKnobs \/ "none" \in DOMAIN ConfigKnobs[id].led
    THEN GlobalLeds
    ELSE LET led == ConfigKnobs[id].led
             pick(f) == IF f \in DOMAIN led THEN led[f] ELSE GlobalLeds[f]
         IN ValidateLeds([mode |-> pick("mode"), low_color |-> pick("low_color"),
                          high_color |-> pick("high_color")])

\* get_led_color interpolating with norm as it is given.
get_led_colorUnclamped(cfg, norm) ==
    IF cfg.mode = "off" THEN <<0, 0, 0>>
    ELSE IF cfg.mode = "static" THEN cfg.high_color
    ELSE LET ch(k) == (cfg.low_color[k] * ONE
                        + (cfg.high_color[k] - cfg.low_color[k]) * norm) \div ONE
         IN <<ch(1), ch(2), ch(3)>>

\* config.get_led_color; int() truncates, and every value here is >= 0.
get_led_color(cfg, norm) ==
    IF cfg.mode = "off" THEN <<0, 0, 0>>
    ELSE IF cfg.mode = "static" THEN cfg.high_color
    ELSE LET t == Clamp(norm, 0, ONE)
             ch(k) == (cfg.low_color[k] * ONE + (cfg.high_color[k] - cfg.low_color[k]) * t)
                        \div ONE
         IN <<ch(1), ch(2), ch(3)>>

\* turnupd.all_led_colors: the colour of knob i is element i + 1.
all_led_colors(norms) ==
    [k \in 1..NUM_KNOBS |-> get_led_color(get_knob_led_cfg(k - 1), norms[k - 1])]

RECURSIVE Repeat(_, _)
Repeat(str, n) == IF n = 0 THEN <<>> ELSE str \o Repeat(str, n - 1)

\* build_led_packet repeating each channel instead of each triple.
build_led_packetByChannel(colors) ==
    <<254, 5>> \o Concat([k \in 1..Len(colors) |->
                            Concat([c \in 1..3 |-> Repeat(<<colors[k][c]>>, LEDS_PER_KNOB)])])
               \o <<255>>

\* turnupd.build_led_packet
build_led_packet(colors) ==
    <<254, 5>> \o Concat([k \in 1..Len(colors) |-> Repeat(colors[k], LEDS_PER_KNOB)])
               \o <<255>>

-----------------------------------------------------------------------------
(* Knob conversion *)

\* knob_to_norm cutting the decimals after the fourth instead of rounding.
knob_to_normTruncated(value) == (value * ONE) \div KNOB_MAX

\* round(value / KNOB_MAX, 4): value * 10000 / 1012 is never halfway between
\* two integers (1012 = 4 * 253 and 253 is odd), so rounding to nearest is
\* floor(x + 1/2).
knob_to_norm(value) == (2 * value * ONE + KNOB_MAX) \div (2 * KNOB_MAX)

\* round((value / KNOB_MAX) * VOLUME_MAX, 4)
knob_to_volume(value) == (2 * value * VOLUME_MAX + KNOB_MAX) \div (2 * KNOB_MAX)

-----------------------------------------------------------------------------
(* Dispatcher: handle_knob, handle_button *)

\* The part of the daemon's state a handler reads and writes: the audio
\* state, knob_norms, the LED packets written to the serial port by this
\* handler, and the colours the device shows.
Daemon(a, norms, last) == [a |-> a, norms |-> norms, leds |-> <<>>, shown |-> last]

\* send_leds skipping the write when the colours are those last written.
send_ledsIfChanged(d, cause) ==
    LET colors == all_led_colors(d.norms) IN
    IF colors = d.shown THEN d
    ELSE [d EXCEPT !.leds = Append(@, [cause |-> cause, colors |-> colors, prev |-> d.shown,
                                       packet |-> build_led_packet(colors)]),
                   !.shown = colors]

\* turnupd.send_leds: one write of the packet for the current knob_norms.
\* `cause` names the caller; `prev` is the vector of the write before this one.
\* While ser.write raises serial.SerialException the exception is caught and
\* logged: nothing is written and nothing else changes.
send_leds(d, cause) ==
    LET colors == all_led_colors(d.norms) IN
    IF ~ser_ok THEN d ELSE
    [d EXCEPT !.leds = Append(@, [cause |-> cause, colors |-> colors, prev |-> d.shown,
                                  packet |-> build_led_packet(colors)]),
              !.shown = colors]

\* for t in knob_cfg.get("targets", []): pulse.set_app_volume(t, vol)
RECURSIVE SetGroupVolume(_, _, _, _)
SetGroupVolume(a, targets, vol, k) ==
    IF k > Len(targets) THEN a
    ELSE SetGroupVolume(SetAppVolume(a, targets[k], vol), targets, vol, k + 1)

\* handle_knob refreshing the LEDs before it stores the new position.
handle_knobStaleLeds(d, knob_id, value) ==
    IF knob_id \notin DOMAIN ConfigKnobs THEN d
    ELSE LET knob_cfg == ConfigKnobs[knob_id]
             vol == knob_to_volume(value)
             a1 == IF knob_cfg.action = "sink_volume"
                      THEN SetSinkVolume(d.a, knob_cfg.target, vol)
                   ELSE IF knob_cfg.action = "source_volume"
                      THEN SetSourceVolume(d.a, knob_cfg.target, knob_to_norm(value))
                   ELSE IF knob_cfg.action = "app_volume"
                      THEN SetAppVolume(d.a, knob_cfg.target, vol)
                   ELSE SetGroupVolume(d.a, knob_cfg.targets, vol, 1)
             d1 == send_leds([d EXCEPT !.a = a1], "knob")
         IN [d1 EXCEPT !.norms[knob_id] = knob_to_norm(value)]

\* handle_knob with the source_volume branch calling the sink operation.
handle_knobSourceAsSink(d, knob_id, value) ==
    IF knob_id \notin DOMAIN ConfigKnobs THEN d
    ELSE LET knob_cfg == ConfigKnobs[knob_id]
             vol == knob_to_volume(value)
             a1 == IF knob_cfg.action \in {"sink_volume", "source_volume"}
                      THEN SetSinkVolume(d.a, knob_cfg.target, vol)
                   ELSE IF knob_cfg.action = "app_volume"
                      THEN SetAppVolume(d.a, knob_cfg.target, vol)
                   ELSE SetGroupVolume(d.a, knob_cfg.targets, vol, 1)
         IN send_leds([d EXCEPT !.a = a1, !.norms[knob_id] = knob_to_norm(value)], "knob")

\* turnupd.handle_knob
handle_knob(d, knob_id, value) ==
    IF knob_id \notin DOMAIN ConfigKnobs THEN d
    ELSE LET knob_cfg == ConfigKnobs[knob_id]
             norm == knob_to_norm(value)
             vol == knob_to_volume(value)
             a1 == IF knob_cfg.action = "sink_volume"
                      THEN SetSinkVolume(d.a, knob_cfg.target, vol)
                   ELSE IF knob_cfg.action = "source_volume"
                      THEN SetSourceVolume(d.a, knob_cfg.target, norm)
                   ELSE IF knob_cfg.action = "app_volume"
                      THEN SetAppVolume(d.a, knob_cfg.target, vol)
                   ELSE IF knob_cfg.action = "group_volume"
                      THEN SetGroupVolume(d.a, knob_cfg.targets, vol, 1)
                   ELSE d.a
         IN send_leds([d EXCEPT !.a = a1, !.norms[knob_id] = norm], "knob")

\* handle_button without the test of the action.
handle_buttonAnyAction(d, button_id, action) ==
    IF button_id \notin DOMAIN ConfigButtons THEN d
    ELSE LET btn_cfg == ConfigButtons[button_id] IN
         IF btn_cfg.action = "mute_sink"
            THEN [d EXCEPT !.a = ToggleMuteSink(d.a, btn_cfg.target)]
         ELSE IF btn_cfg.action = "mute_source"
            THEN [d EXCEPT !.a = ToggleMuteSource(d.a, btn_cfg.target)]
         ELSE [d EXCEPT !.a.trace = Append(@, DeviceCall("Popen", btn_cfg.target, 0, TRUE))]

\* turnupd.handle_button
handle_button(d, button_id, action) ==
    IF action # "press" \/ button_id \notin DOMAIN ConfigButtons THEN d
    ELSE LET btn_cfg == ConfigButtons[button_id] IN
         IF btn_cfg.action = "mute_sink"
            THEN [d EXCEPT !.a = ToggleMuteSink(d.a, btn_cfg.target)]
         ELSE IF btn_cfg.action = "mute_source"
            THEN [d EXCEPT !.a = ToggleMuteSource(d.a, btn_cfg.target)]
         ELSE IF btn_cfg.action = "command"
            THEN [d EXCEPT !.a.trace = Append(@, DeviceCall("Popen", btn_cfg.target, 0, TRUE))]
         ELSE d

-----------------------------------------------------------------------------
(* Reconciliation: build_app_volume_map, reapply_app_volumes, init_knob_norms *)

HYSTERESIS == 100

\* app_volumes[key] = vol on an insertion-ordered dict: a key already present
\* keeps its place.
DictPut(map, key, vol) ==
    IF \E k \in 1..Len(map) : map[k].app = key
    THEN [k \in 1..Len(map) |-> IF map[k].app = key THEN [app |-> key, vol |-> vol]
                                 ELSE map[k]]
    ELSE Append(map, [app |-> key, vol |-> vol])

RECURSIVE PutTargets(_, _, _, _)
PutTargets(map, targets, vol, k) ==
    IF k > Len(targets) THEN map
    ELSE PutTargets(IF targets[k] # <<>> THEN DictPut(map, Lower(targets[k]), vol) ELSE map,
                    targets, vol, k + 1)

\* turnupd.build_app_volume_map: the dict as the sequence of its items.
RECURSIVE BuildFrom(_, _, _)
BuildFrom(map, norms, knob_id) ==
    IF knob_id >= NUM_KNOBS THEN map
    ELSE IF knob_id \notin DOMAIN ConfigKnobs THEN BuildFrom(map, norms, knob_id + 1)
    ELSE LET knob_cfg == ConfigKnobs[knob_id]
             vol == (2 * norms[knob_id] * VOLUME_MAX + ONE) \div (2 * ONE)
         IN BuildFrom(IF knob_cfg.action = "app_volume"
                         THEN PutTargets(map, <<knob_cfg.target>>, vol, 1)
                      ELSE IF knob_cfg.action = "group_volume"
                         THEN PutTargets(map, knob_cfg.targets, vol, 1)
                      ELSE map,
                      norms, knob_id + 1)

build_app_volume_map(norms) == BuildFrom(<<>>, norms, 0)

\* A split that sends every application to the stream correction as well.
RECURSIVE SplitTargetsAll(_, _, _, _)
SplitTargetsAll(a, map, k, pa_only) ==
    IF k > Len(map) THEN [a |-> a, pa_only |-> pa_only]
    ELSE IF ~mpris THEN SplitTargetsAll(a, map, k + 1, Append(pa_only, map[k]))
    ELSE LET r == MprisSetVolume(a, map[k].app, map[k].vol) IN
         SplitTargetsAll(r.a, map, k + 1, Append(pa_only, map[k]))

\* The loop that splits the targets: the audio state after the set_volume
\* calls, and pa_only in insertion order.
RECURSIVE SplitTargets(_, _, _, _)
SplitTargets(a, map, k, pa_only) ==
    IF k > Len(map) THEN [a |-> a, pa_only |-> pa_only]
    ELSE IF ~mpris THEN SplitTargets(a, map, k + 1, Append(pa_only, map[k]))
    ELSE LET r == MprisSetVolume(a, map[k].app, map[k].vol) IN
         SplitTargets(r.a, map, k + 1, IF r.ok THEN pa_only ELSE Append(pa_only, map[k]))

\* abs(current - vol) > 0.01
NeedsWriteAlways(current, vol) == TRUE
NeedsWrite(current, vol) == Abs(current - vol) > HYSTERESIS

\* The loop over sink_input_list: for each stream the first needle of pa_only
\* that matches decides, then break.
RECURSIVE CorrectStreams(_, _, _)
CorrectStreams(a, pa_only, k) ==
    IF k > Len(a.inputs) THEN a
    ELSE LET hits == {j \in 1..Len(pa_only) : Matches(pa_only[j].app, k)} IN
         IF hits = {} THEN CorrectStreams(a, pa_only, k + 1)
         ELSE LET vol == pa_only[CHOOSE j \in hits : \A i \in hits : j <= i].vol
                  current == a.inputs[k]
              IN IF NeedsWrite(current, vol)
                 THEN CorrectStreams([a EXCEPT !.inputs[k] = vol,
                                               !.trace = Append(@, StreamWrite(k, vol, current))],
                                     pa_only, k + 1)
                 ELSE CorrectStreams(a, pa_only, k + 1)

\* turnupd.reapply_app_volumes
reapply_app_volumes(a, norms) ==
    LET app_volumes == build_app_volume_map(norms) IN
    IF app_volumes = <<>> THEN a
    ELSE LET s == SplitTargets(a, app_volumes, 1, <<>>) IN
         IF s.pa_only = <<>> THEN s.a
         ELSE IF ~paUp
            THEN [s.a EXCEPT !.trace = Append(@, PulseCall("sink_input_list", FALSE))]
         ELSE CorrectStreams([s.a EXCEPT !.trace = Append(@, PulseCall("sink_input_list", TRUE))],
                             s.pa_only, 1)

\* turnupd.init_knob_norms: the audio state after the queries, and the norms.
RECURSIVE InitFrom(_, _, _)
InitFrom(a, norms, knob_id) ==
    IF knob_id >= NUM_KNOBS THEN [a |-> a, norms |-> norms]
    ELSE IF knob_id \notin DOMAIN ConfigKnobs THEN InitFrom(a, norms, knob_id + 1)
    ELSE LET knob_cfg == ConfigKnobs[knob_id]
             t == IF knob_cfg.action = "app_volume" THEN knob_cfg.target
                  ELSE IF knob_cfg.targets # <<>> THEN knob_cfg.targets[1] ELSE <<>>
             r == IF knob_cfg.action = "sink_volume"
                     THEN [a |-> a, value |-> GetSinkVolumeNorm(a, knob_cfg.target)]
                  ELSE IF knob_cfg.action = "source_volume"
                     THEN [a |-> a, value |-> GetSourceVolumeNorm(a, knob_cfg.target)]
                  ELSE IF knob_cfg.action \in {"app_volume", "group_volume"} /\ t # <<>>
                     THEN GetAppVolumeNorm(a, t, "number")
                  ELSE [a |-> a, value |-> <<>>]
         IN InitFrom(r.a,
                     IF r.value # <<>> THEN [norms EXCEPT ![knob_id] = r.value[1]] ELSE norms,
                     knob_id + 1)

init_knob_norms(a) == InitFrom(a, [k \in KnobIds |-> 0], 0)

-----------------------------------------------------------------------------
(* Protocol parser *)

Heartbeat == [type |-> "heartbeat"]
Button(a, id) == [type |-> "button", action |-> a, id |-> id]
Knob(id, v) == [type |-> "knob", id |-> id, value |-> v]

\* A frame check with an off-by-one in the length tests (> for >=).
FrameAtStrict(b, i) ==
    LET remaining == Len(b) - i + 1 IN
    IF remaining > 3 /\ b[i + 1] = 2 /\ b[i + 2] = 255 THEN 3
    ELSE IF remaining > 4 /\ b[i + 1] \in {6, 7} /\ b[i + 3] = 255 THEN 4
    ELSE IF remaining > 6 /\ b[i + 1] = 3 /\ b[i + 5] = 255 THEN 6
    ELSE 0

\* The length of the frame whose layout matches at (1-based) index i of b,
\* or 0 when none does; the layouts are tried in the order of the if/elif chain.
FrameAt(b, i) ==
    LET remaining == Len(b) - i + 1 IN
    IF remaining >= 3 /\ b[i + 1] = 2 /\ b[i + 2] = 255 THEN 3
    ELSE IF remaining >= 4 /\ b[i + 1] \in {6, 7} /\ b[i + 3] = 255 THEN 4
    ELSE IF remaining >= 6 /\ b[i + 1] = 3 /\ b[i + 5] = 255 THEN 6
    ELSE 0

\* A message builder that reads the knob value low byte first.
MessageAtLittleEndian(b, i, n) ==
    IF n = 3 THEN Heartbeat
    ELSE IF n = 4 THEN Button(IF b[i + 1] = 6 THEN "press" ELSE "release", b[i + 2])
    ELSE Knob(b[i + 2], b[i + 4] * 256 + b[i + 3])

\* The message appended for the frame of length n at index i of b.
MessageAt(b, i, n) ==
    IF n = 3 THEN Heartbeat
    ELSE IF n = 4 THEN Button(IF b[i + 1] = 6 THEN "press" ELSE "release", b[i + 2])
    ELSE Knob(b[i + 2], b[i + 3] * 256 + b[i + 4])

\* The resynchronisation step at an index where no frame was recognised: i += 1.
ResyncTwo(i) == i + 2
Resync(i) == i + 1

\* What is handed back as the new buffer: buf[i:] (RemainderAll: the buffer
\* handed back unconsumed).
RemainderAll(b, i) == b
\* A buffer that keeps a trailing marker and what follows it for the next read.
RemainderFromMarker(b, i) ==
    LET S == {k \in 1..Len(b) : b[k] = 254 /\ Len(b) - k + 1 < 6} IN
    IF S = {} THEN SubSeq(b, i, Len(b))
    ELSE SubSeq(b, CHOOSE k \in S : \A j \in S : j <= k, Len(b))
Remainder(b, i) == SubSeq(b, i, Len(b))

RECURSIVE ParseLoop(_, _, _)
ParseLoop(b, i, msgs) ==
    IF i > Len(b) THEN [messages |-> msgs, remainder |-> Remainder(b, i)]
    ELSE IF b[i] # 254 THEN ParseLoop(b, i + 1, msgs)
    ELSE LET n == FrameAt(b, i) IN
         IF n > 0 THEN ParseLoop(b, i + n, Append(msgs, MessageAt(b, i, n)))
         ELSE ParseLoop(b, Resync(i), msgs)

parse_messages(b) == ParseLoop(b, 1, <<>>)

\* The frame the device firmware writes for a message (the wire protocol).
Encode(m) ==
    IF m.type = "heartbeat" THEN <<254, 2, 255>>
    ELSE IF m.type = "button"
         THEN <<254, IF m.action = "press" THEN 6 ELSE 7, m.id, 255>>
    ELSE <<254, 3, m.id, m.value \div 256, m.value % 256, 255>>

EncodeAll(ms) == Concat([k \in 1..Len(ms) |-> Encode(ms[k])])

\* Well-formed messages put on the wire: every type, both button actions, the
\* ends of the id and value ranges, and knob values whose low byte is the
\* start marker (254 = 00 FE), the end marker (255 = 00 FF) or a type byte.
FrameMsgs ==
    { Heartbeat, Button("press", 0), Button("release", 4),
      Knob(1, KNOB_MAX), Knob(2, 255), Knob(3, 254) }

\* Bytes of a raw run: a data byte, the type bytes, the two markers.
RawBytes == {0, 2, 3, 6, 7, 254, 255}

\* The strict, non-empty prefixes of a frame: a frame cut short at the end of
\* the buffer.
Truncations(m) == {SubSeq(Encode(m), 1, n) : n \in 1..(Len(Encode(m)) - 1)}

\* The offsets of the wire at which a frame of the script ends.
Boundaries(ms) == {Len(EncodeAll(SubSeq(ms, 1, k))) : k \in 0..Len(ms)}

\* ser.read(64) returns at most this many bytes.
READ_SIZE == 64

\* The bytes of the wire the host has not read yet.
Wire == SubSeq(sent, pos + 1, Len(sent))

\* The truncated frame at the end of a "truncated" run, and the garbage in
\* front of the frame of a "mixed" run.
TruncatedTail == SubSeq(sent, Len(EncodeAll(script)) + 1, Len(sent))
Garbage == SubSeq(sent, 1, Len(sent) - Len(EncodeAll(script)))

NoCall == [op |-> "none", app |-> <<>>, volume |-> 0, reply |-> "none"]

WorldIdle ==
    /\ sinkInputs = <<>>
    /\ devices = StartDevices
    /\ paUp = TRUE
    /\ livePlayers = <<>>
    /\ playerctl = "ok"
    /\ slider = [p \in PlayerIds |-> ONE]
    /\ now = CACHE_TTL

DaemonIdle ==
    /\ pc = "idle"
    /\ knob_norms = [k \in 0..(NUM_KNOBS - 1) |-> 0]
    /\ eventQ = <<>>
    /\ last_reapply = 0
    /\ leds = <<>>
    /\ shown = [k \in 1..NUM_KNOBS |-> <<0, 0, 0>>]
    /\ sinceKnob = 0
    /\ pass = [cause |-> "none", again |-> FALSE, prev |-> <<>>]
    /\ lastPass = <<>>

LifeIdle ==
    /\ config_mtime = <<>>
    /\ st_mtime = <<>>
    /\ last_config_check = 0
    /\ stop_event = FALSE
    /\ pulse_closed = FALSE
    /\ ser_ok = TRUE

DrainIdle ==
    /\ had_events = FALSE
    /\ taken = <<>>
    /\ pushed = <<>>
    /\ threads = <<>>
    /\ watcher_thread = 0

FacadeIdle ==
    /\ mpris = TRUE
    /\ players = <<>>
    /\ playersTs = 0
    /\ call = NoCall
    /\ ret = <<>>
    /\ trace = <<>>

InitParser ==
    /\ kind \in {"frames", "raw", "mixed", "truncated"}
    /\ \/ /\ kind = "frames"
          /\ script \in SeqsOf(FrameMsgs, 1, MaxFrames)
          /\ sent = EncodeAll(script)
       \/ /\ kind = "raw"
          /\ script = <<>>
          /\ sent \in SeqsOf(RawBytes, 1, MaxRaw)
       \/ /\ kind = "mixed"
          /\ script \in SeqsOf(FrameMsgs, 1, 1)
          /\ \E g \in SeqsOf(RawBytes, 1, MaxGarbage) : sent = g \o EncodeAll(script)
       \/ /\ kind = "truncated"
          /\ script \in SeqsOf(FrameMsgs, 0, 1)
          /\ \E m \in FrameMsgs : \E t \in Truncations(m) :
                sent = EncodeAll(script) \o t
    /\ pos = 0
    /\ buf = <<>>
    /\ data = <<>>
    /\ messages = <<>>
    /\ log = <<>>
    /\ aligned = TRUE
    /\ WorldIdle /\ FacadeIdle /\ DaemonIdle
    /\ LifeIdle /\ DrainIdle

\* One pass of the read loop that received bytes: data = ser.read(64);
\* buf.extend(data); messages, buf = parse_messages(buf).
Read(n) ==
    /\ n \in 1..Min(READ_SIZE, Len(Wire))
    /\ LET chunk == SubSeq(sent, pos + 1, pos + n)
           r == parse_messages(buf \o chunk)
       IN /\ data' = chunk
          /\ messages' = r.messages
          /\ buf' = r.remainder
          /\ log' = log \o r.messages
    /\ pos' = pos + n
    /\ aligned' = (aligned /\ (pos + n) \in Boundaries(script))
    /\ UNCHANGED <<sent, script, kind>>
    /\ UNCHANGED <<worldVars, facadeVars, daemonVars>>
    /\ UNCHANGED <<lifeVars, drainVars>>

NextParser == \E n \in 1..READ_SIZE : Read(n)

SpecParser == InitParser /\ [][NextParser]_vars

ParserIdle ==
    /\ sent = <<>> /\ pos = 0 /\ script = <<>> /\ kind = "none"
    /\ buf = <<>> /\ data = <<>> /\ messages = <<>> /\ log = <<>>
    /\ aligned = TRUE

-----------------------------------------------------------------------------
(* The audio facade called directly: SpecAudio *)

\* Volumes a caller asks for: below the range, inside it, above it.
RequestVolumes == {-500, 4000, 12000}

\* The volumes the streams start with: stream 1 amplified beyond 100 %.
StartVolumes == <<15000, ONE, ONE>>

\* The steps by which the clock advances.
ClockSteps == {CACHE_TTL}

InitAudio ==
    /\ sinkInputs = StartVolumes
    /\ devices = StartDevices
    /\ paUp = TRUE
    /\ livePlayers \in PlayerLists
    /\ playerctl = "ok"
    /\ slider = [p \in PlayerIds |-> IF p = PlayerSp THEN 12500 ELSE ONE]
    /\ now = CACHE_TTL
    /\ mpris \in BOOLEAN
    /\ players = <<>>
    /\ playersTs = 0
    /\ call = NoCall
    /\ ret = <<>>
    /\ trace = <<>>
    /\ ParserIdle /\ DaemonIdle
    /\ LifeIdle /\ DrainIdle

\* The state a facade call leaves behind.
Commit(a) ==
    /\ players' = a.players
    /\ playersTs' = a.playersTs
    /\ slider' = a.slider
    /\ sinkInputs' = a.inputs
    /\ devices' = a.devices
    /\ trace' = a.trace

CallSetAppVolume(app, volume) ==
    /\ Commit(SetAppVolume(Audio, app, volume))
    /\ call' = [op |-> "set_app_volume", app |-> app, volume |-> volume, reply |-> "none"]
    /\ ret' = <<>>
    /\ UNCHANGED <<paUp, livePlayers, playerctl, now, mpris>>
    /\ UNCHANGED <<parserVars, daemonVars>>
    /\ UNCHANGED <<lifeVars, drainVars>>

CallGetAppVolumeNorm(app, reply) ==
    /\ LET r == GetAppVolumeNorm(Audio, app, reply) IN
          Commit(r.a) /\ ret' = r.value
    /\ call' = [op |-> "get_app_volume_norm", app |-> app, volume |-> 0, reply |-> reply]
    /\ UNCHANGED <<paUp, livePlayers, playerctl, now, mpris>>
    /\ UNCHANGED <<parserVars, daemonVars>>
    /\ UNCHANGED <<lifeVars, drainVars>>

\* The last facade call has returned: what it left in call, ret and trace is
\* no longer the call in progress.
Returned == call' = NoCall /\ ret' = <<>> /\ trace' = <<>>

\* Players start and quit.
PlayersChange(list) ==
    /\ list # livePlayers
    /\ livePlayers' = list
    /\ UNCHANGED <<sinkInputs, devices, paUp, playerctl, slider, now>>
    /\ Returned
    /\ UNCHANGED <<mpris, players, playersTs, parserVars, daemonVars>>
    /\ UNCHANGED <<lifeVars, drainVars>>

\* The utility becomes unavailable (missing, timing out) or available again.
PlayerctlChange ==
    /\ playerctl' = IF playerctl = "ok" THEN "fail" ELSE "ok"
    /\ UNCHANGED <<sinkInputs, devices, paUp, livePlayers, slider, now>>
    /\ Returned
    /\ UNCHANGED <<mpris, players, playersTs, parserVars, daemonVars>>
    /\ UNCHANGED <<lifeVars, drainVars>>

\* The mutation connection to the audio subsystem breaks or recovers.
PulseChange ==
    /\ paUp' = ~paUp
    /\ UNCHANGED <<sinkInputs, devices, livePlayers, playerctl, slider, now>>
    /\ Returned
    /\ UNCHANGED <<mpris, players, playersTs, parserVars, daemonVars>>
    /\ UNCHANGED <<lifeVars, drainVars>>

Advance(d) ==
    /\ now + d <= MaxNow
    /\ now' = now + d
    /\ UNCHANGED <<sinkInputs, devices, paUp, livePlayers, playerctl, slider>>
    /\ Returned
    /\ UNCHANGED <<mpris, players, playersTs, parserVars, daemonVars>>
    /\ UNCHANGED <<lifeVars, drainVars>>

NextAudio ==
    \/ \E app \in Apps : \E v \in RequestVolumes : CallSetAppVolume(app, v)
    \/ \E app \in Apps : \E reply \in {"number", "text", "empty"} :
            CallGetAppVolumeNorm(app, reply)
    \/ \E list \in PlayerLists : PlayersChange(list)
    \/ PlayerctlChange
    \/ PulseChange
    \/ \E d \in ClockSteps : Advance(d)

SpecAudio == InitAudio /\ [][NextAudio]_vars

-----------------------------------------------------------------------------
(* The daemon: main() of turnupd.py, with the watcher thread and the world *)

\* The messages the device sends while the daemon runs.  Knob 0 drives the
\* sink and has a static LED, knob 1 a group, knob 2 an application, knob 4
\* is not configured, button 1 runs a command.
DaemonMsgs ==
    { Knob(0, 1012), Knob(1, 405), Knob(2, 405), Knob(2, 1012), Knob(4, 100),
      Heartbeat, Button("press", 1) }

\* What one read returns: the frame of one message, or of two.
DaemonBatches ==
    { <<m>> : m \in DaemonMsgs }
    \cup { <<Knob(2, 405), Knob(2, 405)>>, <<Knob(2, 1012), Knob(2, 405)>>,
           <<Knob(1, 405), Heartbeat>> }

\* The sink-input indices of the events the watcher sees.
EventIndices == {2}

\* The reapply timer, the delay before the port is opened again, and the
\* steps by which the clock advances while the daemon waits for bytes.
TIMER == 10
RETRY_DELAY == 30
DaemonClockSteps == {TIMER}

\* The time since handle_knob last ran, as far as KNOB_QUIET: at KNOB_QUIET
\* it stops counting.
KNOB_QUIET == 2
Since(age, d) == Min(KNOB_QUIET, age + d)

NoPass == [cause |-> "none", again |-> FALSE, prev |-> <<>>]

\* Nothing a reconciliation pass reads has changed since the last pass.
Settled == lastPass # <<>>

\* The stream writes among the backend calls of a trace.
StreamWrites(tr) == SelectSeq(tr, LAMBDA c : c.fn = "volume_set_all_chans")

\* The state of the world a daemon run starts from.
InitWorld ==
    /\ sinkInputs = <<4000, 4050, ONE>>
    /\ devices = StartDevices
    /\ paUp = TRUE
    /\ livePlayers \in {<<>>, <<PlayerSp>>}
    /\ playerctl = "ok"
    /\ slider = [p \in PlayerIds |-> ONE]
    /\ now = CACHE_TTL

\* main() up to the outer loop: the controllers are constructed, the watcher
\* is started, init_knob_norms has queried the backends.
Init ==
    /\ InitWorld
    /\ mpris = TRUE
    /\ LET r == init_knob_norms([players |-> <<>>, playersTs |-> 0, slider |-> slider,
                                 inputs |-> sinkInputs, devices |-> devices,
                                 trace |-> <<>>])
       IN /\ players = r.a.players
          /\ playersTs = r.a.playersTs
          /\ trace = r.a.trace
          /\ knob_norms = r.norms
    /\ call = [op |-> "init_knob_norms", app |-> <<>>, volume |-> 0, reply |-> "none"]
    /\ ret = <<>>
    /\ pc = "connect"
    /\ eventQ = <<>>
    /\ last_reapply = now
    /\ leds = <<>>
    /\ shown = [k \in 1..NUM_KNOBS |-> <<0, 0, 0>>]
    /\ sinceKnob = KNOB_QUIET
    /\ pass = NoPass
    /\ lastPass = <<>>
    /\ ParserIdle
    /\ LifeIdle /\ DrainIdle

\* What a handler leaves behind.
CommitDaemon(d, op) ==
    /\ Commit(d.a)
    /\ knob_norms' = d.norms
    /\ leds' = d.leds
    /\ shown' = d.shown
    /\ call' = [op |-> op, app |-> <<>>, volume |-> 0, reply |-> "none"]
    /\ ret' = <<>>

\* The connection opened without the LED refresh.
ConnectWithoutRefresh ==
    /\ pc = "connect"
    /\ CommitDaemon(Daemon(Audio, knob_norms, shown), "connect")
    /\ buf' = <<>>
    /\ pc' = "read"
    /\ UNCHANGED <<sent, pos, script, kind, data, messages, log, aligned>>
    /\ UNCHANGED <<paUp, livePlayers, playerctl, now, mpris>>
    /\ pass' = NoPass
    /\ UNCHANGED <<eventQ, last_reapply, sinceKnob, lastPass>>
    /\ UNCHANGED <<lifeVars, drainVars>>

\* with serial.Serial(...) as ser: buf.clear(); send_leds(...)
Connect ==
    /\ pc = "connect"
    /\ CommitDaemon(send_leds(Daemon(Audio, knob_norms, shown), "connect"), "connect")
    /\ buf' = <<>>
    /\ pc' = "read"
    /\ UNCHANGED <<sent, pos, script, kind, data, messages, log, aligned>>
    /\ UNCHANGED <<paUp, livePlayers, playerctl, now, mpris>>
    /\ pass' = NoPass
    /\ UNCHANGED <<eventQ, last_reapply, sinceKnob, lastPass>>
    /\ UNCHANGED <<lifeVars, drainVars>>

\* for msg in messages: ...
\* A dispatch loop that a failed LED write ends, as an exception leaving
\* send_leds would.
RECURSIVE DispatchAllWriteFatal(_, _, _)
DispatchAllWriteFatal(d, msgs, k) ==
    IF k > Len(msgs) THEN d
    ELSE LET msg == msgs[k]
             d1 == IF msg.type = "knob" THEN handle_knob(d, msg.id, msg.value)
                   ELSE IF msg.type = "button" THEN handle_button(d, msg.id, msg.action)
                   ELSE IF msg.type = "heartbeat" THEN send_leds(d, "heartbeat")
                   ELSE d
         IN IF ~ser_ok /\ msg.type \in {"knob", "heartbeat"} THEN d1
            ELSE DispatchAllWriteFatal(d1, msgs, k + 1)

RECURSIVE DispatchAll(_, _, _)
DispatchAll(d, msgs, k) ==
    IF k > Len(msgs) THEN d
    ELSE LET msg == msgs[k]
             d1 == IF msg.type = "knob" THEN handle_knob(d, msg.id, msg.value)
                   ELSE IF msg.type = "button" THEN handle_button(d, msg.id, msg.action)
                   ELSE IF msg.type = "heartbeat" THEN send_leds(d, "heartbeat")
                   ELSE d
         IN DispatchAll(d1, msgs, k + 1)

HasKnob(msgs) == \E k \in 1..Len(msgs) : msgs[k].type = "knob"

\* One pass of the read loop that received the frames of `batch`:
\* lines 626-641.  The locals data and messages are dead once the loop over
\* the messages is over; the daemon's runs do not record them.
ReadLoop(batch) ==
    /\ pc = "read"
    /\ LET chunk == EncodeAll(batch)
           r == parse_messages(buf \o chunk)
       IN /\ buf' = r.remainder
          /\ CommitDaemon(DispatchAll(Daemon(Audio, knob_norms, shown), r.messages, 1),
                          "dispatch")
          /\ sinceKnob' = IF HasKnob(r.messages) THEN 0 ELSE sinceKnob
          /\ lastPass' = IF HasKnob(r.messages) THEN <<>> ELSE lastPass
    /\ pc' = "trigger"
    /\ pass' = NoPass
    /\ UNCHANGED <<sent, pos, script, kind, data, messages, log, aligned>>
    /\ UNCHANGED <<paUp, livePlayers, playerctl, now, mpris>>
    /\ UNCHANGED <<eventQ, last_reapply>>
    /\ UNCHANGED <<lifeVars, drainVars>>

\* One pass of the read loop whose read timed out: data is empty.
ReadNothing ==
    /\ pc = "read"
    /\ pc' = "trigger"
    /\ call' = NoCall /\ ret' = <<>> /\ trace' = <<>> /\ leds' = <<>>
    /\ UNCHANGED parserVars
    /\ UNCHANGED <<worldVars, mpris, players, playersTs>>
    /\ pass' = NoPass
    /\ UNCHANGED <<knob_norms, eventQ, last_reapply, shown, sinceKnob, lastPass>>
    /\ UNCHANGED <<lifeVars, drainVars>>

\* The trigger test with its operands swapped: now - last_reapply >= 1.0 or
\* pulse.drain_events(), which leaves the queue alone when the timer is due.
TriggerTimerFirst ==
    /\ pc = "trigger"
    /\ pc' = "read"
    /\ LET expired == now - last_reapply >= TIMER
           drained == ~expired /\ eventQ # <<>>
           a == reapply_app_volumes(Audio, knob_norms)
       IN /\ eventQ' = IF expired THEN eventQ ELSE <<>>
          /\ IF drained \/ expired
             THEN /\ last_reapply' = now
                  /\ Commit(a)
                  /\ call' = [op |-> "reapply", app |-> <<>>, volume |-> 0, reply |-> "none"]
                  /\ pass' = [cause |-> IF ~drained THEN "timer" ELSE "event",
                              again |-> Settled,
                              prev |-> IF Settled THEN lastPass[1] ELSE <<>>]
                  /\ lastPass' = <<StreamWrites(a.trace)>>
             ELSE /\ call' = NoCall /\ trace' = <<>>
                  /\ pass' = NoPass
                  /\ UNCHANGED <<last_reapply, lastPass>>
                  /\ UNCHANGED <<players, playersTs, slider, sinkInputs, devices>>
    /\ ret' = <<>>
    /\ leds' = <<>>
    /\ UNCHANGED parserVars
    /\ UNCHANGED <<paUp, livePlayers, playerctl, now, mpris>>
    /\ UNCHANGED <<knob_norms, shown, sinceKnob>>
    /\ UNCHANGED <<lifeVars, drainVars>>

\* Lines 660-662: if pulse.drain_events() or now - last_reapply >= 1.0: ...
Trigger ==
    /\ pc = "trigger"
    /\ pc' = "read"
    /\ eventQ' = <<>>
    /\ LET drained == eventQ # <<>>
           expired == now - last_reapply >= TIMER
           a == reapply_app_volumes(Audio, knob_norms)
       IN IF drained \/ expired
          THEN /\ last_reapply' = now
               /\ Commit(a)
               /\ call' = [op |-> "reapply", app |-> <<>>, volume |-> 0, reply |-> "none"]
               /\ pass' = [cause |-> IF ~drained THEN "timer"
                                     ELSE IF expired THEN "both" ELSE "event",
                           again |-> Settled,
                           prev |-> IF Settled THEN lastPass[1] ELSE <<>>]
               /\ lastPass' = <<StreamWrites(a.trace)>>
          ELSE /\ call' = NoCall /\ trace' = <<>>
               /\ pass' = NoPass
               /\ UNCHANGED <<last_reapply, lastPass>>
               /\ UNCHANGED <<players, playersTs, slider, sinkInputs, devices>>
    /\ ret' = <<>>
    /\ leds' = <<>>
    /\ UNCHANGED parserVars
    /\ UNCHANGED <<paUp, livePlayers, playerctl, now, mpris>>
    /\ UNCHANGED <<knob_norms, shown, sinceKnob>>
    /\ UNCHANGED <<lifeVars, drainVars>>

\* The watcher thread: _cb puts the index of a sink-input event on the queue.
WatcherPush(idx) ==
    /\ Len(eventQ) < MaxQueue
    /\ eventQ' = Append(eventQ, idx)
    /\ UNCHANGED <<pc, knob_norms, last_reapply, leds, shown, sinceKnob, pass, lastPass>>
    /\ UNCHANGED <<parserVars, worldVars, facadeVars>>
    /\ UNCHANGED <<lifeVars, drainVars>>

\* What the daemon has observed of its last step is over once the world moves.
Forget == leds' = <<>> /\ pass' = NoPass

\* module-stream-restore: a stream comes back at 100 %.
StreamRestore(k) ==
    /\ sinkInputs[k] # ONE
    /\ sinkInputs' = [sinkInputs EXCEPT ![k] = ONE]
    /\ lastPass' = <<>>
    /\ Returned /\ Forget
    /\ UNCHANGED <<devices, paUp, livePlayers, playerctl, slider, now>>
    /\ UNCHANGED <<mpris, players, playersTs, parserVars>>
    /\ UNCHANGED <<pc, knob_norms, eventQ, last_reapply, shown, sinceKnob>>
    /\ UNCHANGED <<lifeVars, drainVars>>

\* A media player starts or quits.
PlayerStartsOrQuits(list) ==
    /\ list # livePlayers
    /\ livePlayers' = list
    /\ lastPass' = <<>>
    /\ Returned /\ Forget
    /\ UNCHANGED <<sinkInputs, devices, paUp, playerctl, slider, now>>
    /\ UNCHANGED <<mpris, players, playersTs, parserVars>>
    /\ UNCHANGED <<pc, knob_norms, eventQ, last_reapply, shown, sinceKnob>>
    /\ UNCHANGED <<lifeVars, drainVars>>

\* Time passes while ser.read waits for bytes.
Tick(d) ==
    /\ pc = "read"
    /\ now + d <= MaxNow
    /\ now' = now + d
    /\ sinceKnob' = Since(sinceKnob, d)
    /\ Returned /\ Forget
    /\ UNCHANGED <<sinkInputs, devices, paUp, livePlayers, playerctl, slider>>
    /\ UNCHANGED <<mpris, players, playersTs, parserVars>>
    /\ UNCHANGED <<pc, knob_norms, eventQ, last_reapply, shown, lastPass>>
    /\ UNCHANGED <<lifeVars, drainVars>>

\* except serial.SerialException: ... time.sleep(3), then the outer loop
\* opens the port again.
SerialError ==
    /\ pc = "read"
    /\ now + RETRY_DELAY <= MaxNow
    /\ now' = now + RETRY_DELAY
    /\ pc' = "connect"
    /\ Returned /\ Forget
    /\ sinceKnob' = Since(sinceKnob, RETRY_DELAY)
    /\ UNCHANGED <<sinkInputs, devices, paUp, livePlayers, playerctl, slider>>
    /\ UNCHANGED <<mpris, players, playersTs, parserVars>>
    /\ UNCHANGED <<knob_norms, eventQ, last_reapply, shown, lastPass>>
    /\ UNCHANGED <<lifeVars, drainVars>>

Next ==
    \/ Connect
    \/ \E batch \in DaemonBatches : ReadLoop(batch)
    \/ ReadNothing
    \/ Trigger
    \/ SerialError
    \/ \E idx \in EventIndices : WatcherPush(idx)
    \/ \E k \in DOMAIN StreamProps : StreamRestore(k)
    \/ \E list \in {<<>>, <<PlayerSp>>} : PlayerStartsOrQuits(list)
    \/ \E d \in DaemonClockSteps : Tick(d)

Spec == Init /\ [][Next]_vars

-----------------------------------------------------------------------------
(* The handlers called on parsed messages: SpecKnobs and SpecButtons *)

\* The knob frames one read delivers to the dispatcher.  Knobs 0 and 2 also
\* with a raw value no ADC reports (FE 03 02 07 E8 FF); knob 4 has no
\* configuration entry.
KnobBatches ==
    { <<m>> : m \in { Knob(0, 1012), Knob(0, 2024), Knob(1, 405), Knob(2, 405),
                      Knob(2, 2024), Knob(3, 506), Knob(4, 100) } }

\* The button frames one read delivers: every button pressed and released,
\* button 3 without a configuration entry, the mute buttons pressed twice.
ButtonBatches ==
    { <<Button(a, id)>> : a \in {"press", "release"}, id \in 0..4 }
    \cup { <<Button("press", 0), Button("press", 0)>>,
           <<Button("press", 4), Button("press", 4)>> }

InitDispatch ==
    /\ InitWorld
    /\ mpris = TRUE
    /\ LET r == init_knob_norms([players |-> <<>>, playersTs |-> 0, slider |-> slider,
                                 inputs |-> sinkInputs, devices |-> devices,
                                 trace |-> <<>>])
       IN /\ players = r.a.players
          /\ playersTs = r.a.playersTs
          /\ knob_norms = r.norms
    /\ trace = <<>>
    /\ call = NoCall
    /\ ret = <<>>
    /\ pc = "handlers"
    /\ eventQ = <<>>
    /\ last_reapply = now
    /\ leds = <<>>
    /\ shown = all_led_colors(knob_norms)
    /\ sinceKnob = KNOB_QUIET
    /\ pass = NoPass
    /\ lastPass = <<>>
    /\ ParserIdle
    /\ LifeIdle /\ DrainIdle

\* Lines 626-641 with the port open: the frames of `batch` are read, parsed
\* and dispatched.
Dispatch(batch) ==
    /\ pc = "handlers"
    /\ LET r == parse_messages(buf \o EncodeAll(batch)) IN
          /\ buf' = r.remainder
          /\ messages' = r.messages
          /\ CommitDaemon(DispatchAll(Daemon(Audio, knob_norms, shown), r.messages, 1),
                          "dispatch")
    /\ UNCHANGED <<sent, pos, script, kind, data, log, aligned>>
    /\ UNCHANGED <<paUp, livePlayers, playerctl, now, mpris>>
    /\ UNCHANGED <<pc, eventQ, last_reapply, sinceKnob, pass, lastPass>>
    /\ UNCHANGED <<lifeVars, drainVars>>

\* Line 662: one reconciliation pass.
Reapply ==
    /\ pc = "handlers"
    /\ Commit(reapply_app_volumes(Audio, knob_norms))
    /\ call' = [op |-> "reapply", app |-> <<>>, volume |-> 0, reply |-> "none"]
    /\ ret' = <<>>
    /\ leds' = <<>>
    /\ messages' = <<>>
    /\ UNCHANGED <<sent, pos, script, kind, buf, data, log, aligned>>
    /\ UNCHANGED <<paUp, livePlayers, playerctl, now, mpris>>
    /\ UNCHANGED <<pc, knob_norms, eventQ, last_reapply, shown, sinceKnob, pass, lastPass>>
    /\ UNCHANGED <<lifeVars, drainVars>>

\* The last handler is over.
Over == Returned /\ leds' = <<>> /\ messages' = <<>>

\* The user makes another sink, or another source, the system default.
DefaultChange(which) ==
    /\ pc = "handlers"
    /\ devices' =
          IF which = "sink"
          THEN [devices EXCEPT !.defaultSink = IF @ = "hdmi" THEN "usb" ELSE "hdmi"]
          ELSE [devices EXCEPT !.defaultSource = IF @ = "mic" THEN "cam" ELSE "mic"]
    /\ Over
    /\ UNCHANGED <<sinkInputs, paUp, livePlayers, playerctl, slider, now>>
    /\ UNCHANGED <<mpris, players, playersTs>>
    /\ UNCHANGED <<sent, pos, script, kind, buf, data, log, aligned>>
    /\ UNCHANGED <<pc, knob_norms, eventQ, last_reapply, shown, sinceKnob, pass, lastPass>>
    /\ UNCHANGED <<lifeVars, drainVars>>

\* The connection to the audio subsystem breaks or recovers.
ConnectionChange ==
    /\ pc = "handlers"
    /\ paUp' = ~paUp
    /\ Over
    /\ UNCHANGED <<sinkInputs, devices, livePlayers, playerctl, slider, now>>
    /\ UNCHANGED <<mpris, players, playersTs>>
    /\ UNCHANGED <<sent, pos, script, kind, buf, data, log, aligned>>
    /\ UNCHANGED <<pc, knob_norms, eventQ, last_reapply, shown, sinceKnob, pass, lastPass>>
    /\ UNCHANGED <<lifeVars, drainVars>>

\* One heartbeat, or two in one read.
HeartbeatBatches == {<<Heartbeat>>, <<Heartbeat, Heartbeat>>}

NextKnobs ==
    \/ \E batch \in KnobBatches \cup HeartbeatBatches : Dispatch(batch)
    \/ Reapply
    \/ DefaultChange("sink")
    \/ ConnectionChange
    \/ \E list \in {<<>>, <<PlayerSp>>} : PlayersChange(list)

SpecKnobs == InitDispatch /\ [][NextKnobs]_vars

NextButtons ==
    \/ \E batch \in ButtonBatches : Dispatch(batch)
    \/ \E which \in {"sink", "source"} : DefaultChange(which)
    \/ ConnectionChange

SpecButtons == InitDispatch /\ [][NextButtons]_vars

-----------------------------------------------------------------------------
(* The controllers called operation by operation: SpecFacade *)

\* What find_player is asked for: a name both players contain in another
\* case, one only the second player contains, one no player contains.
App2 == <<"P", "2">>
Needles == {AppSP, App2, AppZz}

\* The lists playerctl --list-all prints.
FacadeLists == {<<>>, <<PlayerSp, PlayerSp2>>, <<PlayerSp2, PlayerSp>>}

\* The volume the callers ask for.
FacadeVolume == 4000

FacadeCall(op, app, reply, target) ==
    [op |-> op, app |-> app, volume |-> FacadeVolume, reply |-> reply, target |-> target]

InitFacade ==
    /\ sinkInputs = <<>>
    /\ devices = StartDevices
    /\ paUp = TRUE
    /\ livePlayers \in FacadeLists
    /\ playerctl = "ok"
    /\ slider = [p \in PlayerIds |-> ONE]
    /\ now = CACHE_TTL
    /\ FacadeIdle
    /\ ParserIdle /\ DaemonIdle
    /\ LifeIdle /\ DrainIdle

CallFindPlayer(app) ==
    /\ LET r == find_player(Audio, app) IN Commit(r.a) /\ ret' = r.value
    /\ call' = FacadeCall("find_player", app, "none", "")
    /\ UNCHANGED <<paUp, livePlayers, playerctl, now, mpris>>
    /\ UNCHANGED <<parserVars, daemonVars>>
    /\ UNCHANGED <<lifeVars, drainVars>>

CallMprisSetVolume(app) ==
    /\ LET r == MprisSetVolume(Audio, app, FacadeVolume) IN Commit(r.a) /\ ret' = <<r.ok>>
    /\ call' = FacadeCall("set_volume", app, "none", "")
    /\ UNCHANGED <<paUp, livePlayers, playerctl, now, mpris>>
    /\ UNCHANGED <<parserVars, daemonVars>>
    /\ UNCHANGED <<lifeVars, drainVars>>

CallMprisGetVolume(app, reply) ==
    /\ LET r == MprisGetVolume(Audio, app, reply) IN Commit(r.a) /\ ret' = r.value
    /\ call' = FacadeCall("get_volume", app, reply, "")
    /\ UNCHANGED <<paUp, livePlayers, playerctl, now, mpris>>
    /\ UNCHANGED <<parserVars, daemonVars>>
    /\ UNCHANGED <<lifeVars, drainVars>>

\* The PulseController operations on a sink or a source that return nothing.
CallSetSinkVolume(target) ==
    /\ Commit(SetSinkVolume(Audio, target, FacadeVolume))
    /\ ret' = <<>>
    /\ call' = FacadeCall("set_sink_volume", <<>>, "none", target)
    /\ UNCHANGED <<paUp, livePlayers, playerctl, now, mpris>>
    /\ UNCHANGED <<parserVars, daemonVars>>
    /\ UNCHANGED <<lifeVars, drainVars>>

CallSetSourceVolume(target) ==
    /\ Commit(SetSourceVolume(Audio, target, FacadeVolume))
    /\ ret' = <<>>
    /\ call' = FacadeCall("set_source_volume", <<>>, "none", target)
    /\ UNCHANGED <<paUp, livePlayers, playerctl, now, mpris>>
    /\ UNCHANGED <<parserVars, daemonVars>>
    /\ UNCHANGED <<lifeVars, drainVars>>

CallToggleMuteSink(target) ==
    /\ Commit(ToggleMuteSink(Audio, target))
    /\ ret' = <<>>
    /\ call' = FacadeCall("toggle_mute_sink", <<>>, "none", target)
    /\ UNCHANGED <<paUp, livePlayers, playerctl, now, mpris>>
    /\ UNCHANGED <<parserVars, daemonVars>>
    /\ UNCHANGED <<lifeVars, drainVars>>

CallToggleMuteSource(target) ==
    /\ Commit(ToggleMuteSource(Audio, target))
    /\ ret' = <<>>
    /\ call' = FacadeCall("toggle_mute_source", <<>>, "none", target)
    /\ UNCHANGED <<paUp, livePlayers, playerctl, now, mpris>>
    /\ UNCHANGED <<parserVars, daemonVars>>
    /\ UNCHANGED <<lifeVars, drainVars>>

CallGetSinkVolumeNorm(target) ==
    /\ ret' = GetSinkVolumeNorm(Audio, target)
    /\ call' = FacadeCall("get_sink_volume_norm", <<>>, "none", target)
    /\ trace' = <<>>
    /\ UNCHANGED <<worldVars, mpris, players, playersTs>>
    /\ UNCHANGED <<parserVars, daemonVars>>
    /\ UNCHANGED <<lifeVars, drainVars>>

CallGetSourceVolumeNorm(target) ==
    /\ ret' = GetSourceVolumeNorm(Audio, target)
    /\ call' = FacadeCall("get_source_volume_norm", <<>>, "none", target)
    /\ trace' = <<>>
    /\ UNCHANGED <<worldVars, mpris, players, playersTs>>
    /\ UNCHANGED <<parserVars, daemonVars>>
    /\ UNCHANGED <<lifeVars, drainVars>>

\* The user makes the other sink the system default.
DefaultSinkChange ==
    /\ devices' = [devices EXCEPT !.defaultSink = IF @ = "hdmi" THEN "usb" ELSE "hdmi"]
    /\ Returned
    /\ UNCHANGED <<sinkInputs, paUp, livePlayers, playerctl, slider, now>>
    /\ UNCHANGED <<mpris, players, playersTs, parserVars, daemonVars>>
    /\ UNCHANGED <<lifeVars, drainVars>>

NextFacade ==
    \/ \E app \in Needles : CallFindPlayer(app)
    \/ CallMprisSetVolume(App2)
    \/ \E reply \in {"number", "text", "empty"} : CallMprisGetVolume(AppSP, reply)
    \/ CallSetSinkVolume("default")
    \/ CallSetSourceVolume("default")
    \/ CallToggleMuteSink("default")
    \/ CallToggleMuteSource("default")
    \/ CallGetSinkVolumeNorm("default")
    \/ CallGetSourceVolumeNorm("default")
    \/ \E list \in FacadeLists : PlayersChange(list)
    \/ PlayerctlChange
    \/ PulseChange
    \/ DefaultSinkChange
    \/ Advance(CACHE_TTL)

SpecFacade == InitFacade /\ [][NextFacade]_vars

-----------------------------------------------------------------------------
(* The player list cache refreshed call by call: SpecCache *)

\* The steps of the clock between two calls: 100 ms, and 2.9 s.
CacheClockSteps == {1, CACHE_TTL - 1}

InitCache ==
    /\ sinkInputs = <<>>
    /\ devices = StartDevices
    /\ paUp = TRUE
    /\ livePlayers \in FacadeLists
    /\ playerctl = "ok"
    /\ slider = [p \in PlayerIds |-> ONE]
    /\ now = CACHE_TTL
    /\ FacadeIdle
    /\ ParserIdle /\ DaemonIdle
    /\ LifeIdle /\ DrainIdle

CallRefreshPlayers(force) ==
    /\ Commit(RefreshPlayers(Audio, force))
    /\ ret' = <<>>
    /\ call' = [op |-> "_refresh_players", force |-> force]
    /\ UNCHANGED <<paUp, livePlayers, playerctl, now, mpris>>
    /\ UNCHANGED <<parserVars, daemonVars>>
    /\ UNCHANGED <<lifeVars, drainVars>>

NextCache ==
    \/ \E force \in BOOLEAN : CallRefreshPlayers(force)
    \/ \E list \in FacadeLists : PlayersChange(list)
    \/ PlayerctlChange
    \/ \E d \in CacheClockSteps : Advance(d)

SpecCache == InitCache /\ [][NextCache]_vars

-----------------------------------------------------------------------------
(* The life of the process: SpecLife.  main() with its failures, the        *)
(* configuration check, the termination signals                             *)

\* The period of the configuration check (2.0 s).
CONFIG_PERIOD == 20

\* What one ser.read(64) returns in these runs: a knob frame, a heartbeat
\* frame, the first half of the knob frame, its second half.
LifeChunks == {EncodeAll(<<Knob(2, 405)>>), EncodeAll(<<Heartbeat>>),
               <<254, 3, 2>>, <<1, 149, 255>>}

\* The modification times the configuration file takes.
Mtimes == {<<>>, <<1>>, <<2>>}

\* The exceptions the retry loop catches: serial.SerialException and any
\* other Exception.
Errors == {"SerialException", "Exception"}

\* main() up to the outer loop, lines 588-616, without the watcher and its queue.
InitMain ==
    /\ sinkInputs = <<4000, 4050, ONE>>
    /\ devices = StartDevices
    /\ paUp = TRUE
    /\ livePlayers = <<>>
    /\ playerctl = "ok"
    /\ slider = [p \in PlayerIds |-> ONE]
    /\ now = 0
    /\ mpris = TRUE
    /\ LET r == init_knob_norms([players |-> <<>>, playersTs |-> 0, slider |-> slider,
                                 inputs |-> sinkInputs, devices |-> devices,
                                 trace |-> <<>>])
       IN /\ players = r.a.players
          /\ playersTs = r.a.playersTs
          /\ knob_norms = r.norms
    /\ trace = <<>>
    /\ call = NoCall
    /\ ret = <<>>
    /\ pc = "connect"
    /\ eventQ = <<>>
    /\ last_reapply = now
    /\ leds = <<>>
    /\ shown = [k \in 1..NUM_KNOBS |-> <<0, 0, 0>>]
    /\ sinceKnob = KNOB_QUIET
    /\ pass = NoPass
    /\ lastPass = <<>>
    /\ ParserIdle
    /\ st_mtime \in {<<>>, <<1>>}
    /\ config_mtime = st_mtime
    /\ last_config_check = now
    /\ stop_event = FALSE
    /\ pulse_closed = FALSE
    /\ ser_ok = TRUE

\* main() up to the outer loop, the watcher left out.
InitLife == InitMain /\ DrainIdle

\* The process is running: it has neither exited nor replaced itself.
Running == pc \in {"connect", "read", "trigger", "backoff"}

\* What a step of main() outside the handlers leaves alone.
LifeFrame ==
    /\ ret' = <<>> /\ trace' = <<>> /\ leds' = <<>> /\ pass' = NoPass
    /\ UNCHANGED parserVars
    /\ UNCHANGED <<sinkInputs, devices, paUp, livePlayers, playerctl, slider>>
    /\ UNCHANGED <<mpris, players, playersTs>>
    /\ UNCHANGED <<knob_norms, eventQ, last_reapply, shown, sinceKnob, lastPass>>
    /\ UNCHANGED <<drainVars, ser_ok>>

\* The configuration check is due: now - last_config_check >= 2.0
CheckDue == now - last_config_check >= CONFIG_PERIOD

\* A retry loop without the catch-all clause: an unexpected error ends main().
FailureFatal(error) ==
    /\ pc \in {"connect", "read", "trigger"}
    /\ pc' = IF error = "SerialException" THEN "backoff" ELSE "exited"
    /\ call' = [op |-> "except", error |-> error, at |-> pc]
    /\ LifeFrame
    /\ UNCHANGED <<now, lifeVars>>

\* Lines 664-669: opening the port, reading, parsing, dispatching or the
\* reconciliation pass raises; the with statement closes the port and the
\* except clause is entered.
Failure(error) ==
    /\ pc \in {"connect", "read", "trigger"}
    /\ pc' = "backoff"
    /\ call' = [op |-> "except", error |-> error, at |-> pc]
    /\ LifeFrame
    /\ UNCHANGED <<now, lifeVars>>

\* A backoff that empties the watcher's queue while it waits.
BackoffDraining ==
    /\ pc = "backoff"
    /\ now + RETRY_DELAY <= MaxNow
    /\ now' = now + RETRY_DELAY
    /\ pc' = "connect"
    /\ call' = [op |-> "sleep", error |-> "none", at |-> pc]
    /\ eventQ' = <<>>
    /\ ret' = <<>> /\ trace' = <<>> /\ leds' = <<>> /\ pass' = NoPass
    /\ UNCHANGED parserVars
    /\ UNCHANGED <<sinkInputs, devices, paUp, livePlayers, playerctl, slider>>
    /\ UNCHANGED <<mpris, players, playersTs>>
    /\ UNCHANGED <<knob_norms, last_reapply, shown, sinceKnob, lastPass>>
    /\ UNCHANGED <<lifeVars, drainVars>>

\* time.sleep(3), then the next iteration of the outer loop.
Backoff ==
    /\ pc = "backoff"
    /\ now + RETRY_DELAY <= MaxNow
    /\ now' = now + RETRY_DELAY
    /\ pc' = "connect"
    /\ call' = [op |-> "sleep", error |-> "none", at |-> pc]
    /\ LifeFrame
    /\ UNCHANGED lifeVars

\* The signal handler whose SystemExit the retry loop catches like an error.
ShutdownSwallowed ==
    /\ Running
    /\ stop_event' = TRUE
    /\ pulse_closed' = TRUE
    /\ pc' = "backoff"
    /\ call' = [op |-> "_shutdown", error |-> "none", at |-> pc]
    /\ LifeFrame
    /\ UNCHANGED <<now, config_mtime, st_mtime, last_config_check>>

\* Lines 610-616, SIGINT or SIGTERM: pulse.close() sets the stop flag of the
\* watcher and closes the connection, sys.exit(0) raises SystemExit, which no
\* except clause of main() catches.
Shutdown ==
    /\ Running
    /\ stop_event' = TRUE
    /\ pulse_closed' = TRUE
    /\ pc' = "exited"
    /\ call' = [op |-> "_shutdown", error |-> "none", at |-> pc]
    /\ LifeFrame
    /\ UNCHANGED <<now, config_mtime, st_mtime, last_config_check>>

\* A configuration check that takes the new modification time and goes on.
ConfigCheckInPlace ==
    /\ pc = "trigger"
    /\ CheckDue
    /\ last_config_check' = now
    /\ config_mtime' = IF st_mtime # <<>> THEN st_mtime ELSE config_mtime
    /\ UNCHANGED <<pc, stop_event, pulse_closed>>
    /\ call' = [op |-> "config_check", error |-> "none", at |-> pc]
    /\ LifeFrame
    /\ UNCHANGED <<now, st_mtime>>

\* Lines 643-654: the check of the configuration file's modification time.
\* os.stat raising OSError is st_mtime = <<>>; os.execv replaces the process.
ConfigCheck ==
    /\ pc = "trigger"
    /\ CheckDue
    /\ last_config_check' = now
    /\ IF st_mtime # <<>> /\ config_mtime # <<>> /\ st_mtime # config_mtime
       THEN /\ stop_event' = TRUE
            /\ pulse_closed' = TRUE
            /\ pc' = "restarted"
       ELSE UNCHANGED <<pc, stop_event, pulse_closed>>
    /\ call' = [op |-> "config_check", error |-> "none", at |-> pc]
    /\ LifeFrame
    /\ UNCHANGED <<now, config_mtime, st_mtime>>

\* Lines 626-641 for the bytes of one read: they are appended to what the
\* buffer holds, the complete frames are dispatched, the rest is kept.
ReadBytes(chunk) ==
    /\ pc = "read"
    /\ LET r == parse_messages(buf \o chunk)
       IN /\ buf' = r.remainder
          /\ messages' = r.messages
          /\ CommitDaemon(DispatchAll(Daemon(Audio, knob_norms, shown), r.messages, 1),
                          "dispatch")
          /\ sinceKnob' = IF HasKnob(r.messages) THEN 0 ELSE sinceKnob
          /\ lastPass' = IF HasKnob(r.messages) THEN <<>> ELSE lastPass
    /\ pc' = "trigger"
    /\ pass' = NoPass
    /\ UNCHANGED <<sent, pos, script, kind, data, log, aligned>>
    /\ UNCHANGED <<paUp, livePlayers, playerctl, now, mpris>>
    /\ UNCHANGED <<eventQ, last_reapply>>
    /\ UNCHANGED <<lifeVars, drainVars>>

\* Lines 656-662, reached once the check is not due (any more).
Reconcile == ~CheckDue /\ Trigger

\* The configuration file is written, removed or created.
ConfigFileChange(mtime) ==
    /\ Running
    /\ mtime # st_mtime
    /\ st_mtime' = mtime
    /\ call' = NoCall
    /\ LifeFrame
    /\ UNCHANGED <<now, pc, config_mtime, last_config_check, stop_event, pulse_closed>>

NextLife ==
    \/ Connect
    \/ \E chunk \in LifeChunks : ReadBytes(chunk)
    \/ ReadNothing
    \/ ConfigCheck
    \/ Reconcile
    \/ Tick(TIMER)
    \/ \E error \in Errors : Failure(error)
    \/ Backoff
    \/ Shutdown
    \/ \E mtime \in Mtimes : ConfigFileChange(mtime)

SpecLife == InitLife /\ [][NextLife]_vars

-----------------------------------------------------------------------------
(* The main loop while writes to the serial port fail: SpecLedFailure *)

\* What one read returns in these runs: a knob frame, a heartbeat frame,
\* and a batch of a knob frame, a heartbeat and another knob frame.
LedChunks == {EncodeAll(<<Knob(2, 405)>>), EncodeAll(<<Heartbeat>>),
              EncodeAll(<<Knob(2, 405), Heartbeat, Knob(0, 1012)>>)}

\* ser.write starts or stops raising serial.SerialException while reads
\* still succeed.
SerialWriteChange ==
    /\ Running
    /\ ser_ok' = ~ser_ok
    /\ call' = NoCall
    /\ ret' = <<>> /\ trace' = <<>> /\ leds' = <<>> /\ pass' = NoPass
    /\ UNCHANGED <<parserVars, worldVars, drainVars>>
    /\ UNCHANGED <<mpris, players, playersTs>>
    /\ UNCHANGED <<pc, knob_norms, eventQ, last_reapply, shown, sinceKnob, lastPass>>
    /\ UNCHANGED <<config_mtime, st_mtime, last_config_check, stop_event, pulse_closed>>

NextLedFailure ==
    \/ Connect
    \/ \E chunk \in LedChunks : ReadBytes(chunk)
    \/ ReadNothing
    \/ ConfigCheck
    \/ Reconcile
    \/ Tick(TIMER)
    \/ SerialWriteChange

SpecLedFailure == InitLife /\ [][NextLedFailure]_vars

-----------------------------------------------------------------------------
(* The event queue between the watcher thread and the main loop: SpecDrain. *)
(* queue.Queue makes put and get_nowait atomic; the two threads interleave  *)
(* between them                                                             *)

\* The watcher puts at most this many indices in a run.
MaxPushes == 4

\* The stream indices the watcher reports.
StreamIndices == {7, 9}

InitDrain ==
    /\ WorldIdle /\ ParserIdle /\ DaemonIdle /\ FacadeIdle
    /\ LifeIdle /\ DrainIdle

\* What the queue operations leave alone.
DrainFrame ==
    /\ UNCHANGED <<parserVars, worldVars, lifeVars>>
    /\ UNCHANGED <<threads, watcher_thread>>
    /\ UNCHANGED <<mpris, players, playersTs, trace>>
    /\ UNCHANGED <<knob_norms, last_reapply, leds, shown, sinceKnob, pass, lastPass>>

\* _cb of the watcher thread: self._event_q.put(int(ev.index))
WatcherPut(idx) ==
    /\ Len(pushed) < MaxPushes
    /\ eventQ' = Append(eventQ, idx)
    /\ pushed' = Append(pushed, idx)
    /\ UNCHANGED <<pc, call, ret, had_events, taken>>
    /\ DrainFrame

\* drain_events() is entered: had_events = False.  The call record keeps the
\* queue at that moment and how much had been put and taken before.
CallDrainEvents ==
    /\ pc = "idle"
    /\ pc' = "get"
    /\ had_events' = FALSE
    /\ call' = [op |-> "drain_events", queue |-> eventQ,
                pushed |-> Len(pushed), taken |-> Len(taken)]
    /\ ret' = <<>>
    /\ UNCHANGED <<eventQ, taken, pushed>>
    /\ DrainFrame

\* A loop body that leaves after the first index.
GetNowaitOnce ==
    /\ pc = "get"
    /\ IF eventQ # <<>>
       THEN /\ eventQ' = Tail(eventQ)
            /\ taken' = Append(taken, Head(eventQ))
            /\ had_events' = TRUE
       ELSE UNCHANGED <<eventQ, taken, had_events>>
    /\ pc' = "return"
    /\ UNCHANGED <<call, ret, pushed>>
    /\ DrainFrame

\* One iteration of the loop: get_nowait() returns the head of the queue, or
\* raises queue.Empty at once and the loop is left.
GetNowait ==
    /\ pc = "get"
    /\ IF eventQ # <<>>
       THEN /\ eventQ' = Tail(eventQ)
            /\ taken' = Append(taken, Head(eventQ))
            /\ had_events' = TRUE
            /\ pc' = "get"
       ELSE /\ pc' = "return"
            /\ UNCHANGED <<eventQ, taken, had_events>>
    /\ UNCHANGED <<call, ret, pushed>>
    /\ DrainFrame

\* return had_events
DrainReturn ==
    /\ pc = "return"
    /\ pc' = "idle"
    /\ ret' = <<had_events>>
    /\ UNCHANGED <<call, eventQ, had_events, taken, pushed>>
    /\ DrainFrame

NextDrain ==
    \/ \E idx \in StreamIndices : WatcherPut(idx)
    \/ CallDrainEvents
    \/ GetNowait
    \/ DrainReturn

SpecDrain == InitDrain /\ [][NextDrain]_vars

-----------------------------------------------------------------------------
(* Reconciliation passes with no knob message in between: SpecReapply *)

\* The streams at startup: none, or those of the other runs.
ReapplyStreams == {<<>>, <<4000, 4050, ONE>>}

\* The players at startup and later: none, the "sp" player, a player that
\* answers for every application.
ReapplyLists == {<<>>, <<PlayerSp>>, <<PlayerAll>>}

\* The volume a new stream starts with, as module-stream-restore sets it.
StreamStartVolumes == {ONE}

\* main() up to the loop, with init_knob_norms run on what is there at startup.
InitReapply ==
    /\ sinkInputs \in ReapplyStreams
    /\ devices = StartDevices
    /\ paUp = TRUE
    /\ livePlayers \in ReapplyLists
    /\ playerctl = "ok"
    /\ slider = [p \in PlayerIds |-> ONE]
    /\ now = CACHE_TTL
    /\ mpris = TRUE
    /\ LET r == init_knob_norms([players |-> <<>>, playersTs |-> 0, slider |-> slider,
                                 inputs |-> sinkInputs, devices |-> devices,
                                 trace |-> <<>>])
       IN /\ players = r.a.players
          /\ playersTs = r.a.playersTs
          /\ knob_norms = r.norms
    /\ trace = <<>>
    /\ call = NoCall
    /\ ret = <<>>
    /\ pc = "handlers"
    /\ eventQ = <<>>
    /\ last_reapply = now
    /\ leds = <<>>
    /\ shown = all_led_colors(knob_norms)
    /\ sinceKnob = KNOB_QUIET
    /\ pass = NoPass
    /\ lastPass = <<>>
    /\ ParserIdle
    /\ LifeIdle /\ DrainIdle

\* An application opens its next stream (the streams appear in the order of
\* StreamProps).
StreamStarts(volume) ==
    /\ Len(sinkInputs) < Len(StreamProps)
    /\ sinkInputs' = Append(sinkInputs, volume)
    /\ Returned
    /\ UNCHANGED <<devices, paUp, livePlayers, playerctl, slider, now>>
    /\ UNCHANGED <<mpris, players, playersTs, parserVars, daemonVars>>
    /\ UNCHANGED <<lifeVars, drainVars>>

\* A stream starts its next track: module-stream-restore puts it back to 1.0.
TrackChange(k) ==
    /\ k <= Len(sinkInputs)
    /\ sinkInputs[k] # ONE
    /\ sinkInputs' = [sinkInputs EXCEPT ![k] = ONE]
    /\ Returned
    /\ UNCHANGED <<devices, paUp, livePlayers, playerctl, slider, now>>
    /\ UNCHANGED <<mpris, players, playersTs, parserVars, daemonVars>>
    /\ UNCHANGED <<lifeVars, drainVars>>

NextReapply ==
    \/ Reapply
    \/ \E volume \in StreamStartVolumes : StreamStarts(volume)
    \/ \E k \in DOMAIN StreamProps : TrackChange(k)
    \/ \E list \in ReapplyLists : PlayersChange(list)
    \/ PlayerctlChange
    \/ PulseChange
    \/ Advance(CACHE_TTL)

SpecReapply == InitReapply /\ [][NextReapply]_vars

-----------------------------------------------------------------------------
(* The watcher thread and the calls that start and stop it: SpecWatcher *)

ThreadIds == 1..MaxThreads

\* A thread that threading.Thread.start() has just started.  pc is where it
\* is in _event_loop, conn its own connection watch_pulse, errors the number
\* of errors it has logged, last the outcome of its last event_listen.
NewThread == [pc |-> "start", conn |-> "none", errors |-> 0, last |-> "none"]

\* Thread.is_alive() of the threads of a list.
AliveIn(ths) == {t \in 1..Len(ths) : ths[t].pc # "done"}

\* What the watcher thread leaves alone: all but its own position, the queue
\* and the record of what was put on it.
ThreadFrame ==
    /\ UNCHANGED <<parserVars, worldVars, facadeVars, lifeVars>>
    /\ UNCHANGED <<pc, knob_norms, last_reapply, leds, shown, sinceKnob, pass, lastPass>>
    /\ UNCHANGED <<had_events, taken, watcher_thread>>

\* What start_watching and close leave alone.
ControllerFrame ==
    /\ ret' = <<>> /\ trace' = <<>>
    /\ UNCHANGED <<parserVars, worldVars>>
    /\ UNCHANGED <<mpris, players, playersTs>>
    /\ UNCHANGED <<pc, knob_norms, eventQ, last_reapply, leds, shown, sinceKnob, pass,
                   lastPass>>
    /\ UNCHANGED <<config_mtime, st_mtime, last_config_check, ser_ok>>
    /\ UNCHANGED <<had_events, taken, pushed>>

\* start_watching without the test of the thread it holds.
StartWatchingAlways ==
    /\ Len(threads) < MaxThreads
    /\ stop_event' = FALSE
    /\ threads' = Append(threads, NewThread)
    /\ watcher_thread' = Len(threads) + 1
    /\ call' = [op |-> "start_watching", started |-> TRUE]
    /\ UNCHANGED pulse_closed
    /\ ControllerFrame

\* PulseController.start_watching
StartWatching ==
    /\ IF watcher_thread # 0 /\ watcher_thread \in AliveIn(threads)
       THEN /\ UNCHANGED <<stop_event, threads, watcher_thread>>
            /\ call' = [op |-> "start_watching", started |-> FALSE]
       ELSE /\ Len(threads) < MaxThreads
            /\ stop_event' = FALSE
            /\ threads' = Append(threads, NewThread)
            /\ watcher_thread' = Len(threads) + 1
            /\ call' = [op |-> "start_watching", started |-> TRUE]
    /\ UNCHANGED pulse_closed
    /\ ControllerFrame

\* PulseController.close
Close ==
    /\ stop_event' = TRUE
    /\ pulse_closed' = TRUE
    /\ call' = [op |-> "close", started |-> FALSE]
    /\ UNCHANGED <<threads, watcher_thread>>
    /\ ControllerFrame

\* with pulsectl.Pulse("turnupd-watcher") as watch_pulse, event_mask_set,
\* event_callback_set: they succeed, or one raises and the outer except
\* clause logs and ends the thread.
WatcherConnect(t, ok) ==
    /\ t <= Len(threads)
    /\ threads[t].pc = "start"
    /\ threads' = [threads EXCEPT ![t] = IF ok THEN [@ EXCEPT !.pc = "check", !.conn = "open"]
                                         ELSE [@ EXCEPT !.pc = "done"]]
    /\ UNCHANGED <<eventQ, pushed>>
    /\ ThreadFrame

\* A loop test that never looks at the stop flag.
WatcherCheckDeaf(t) ==
    /\ t <= Len(threads)
    /\ threads[t].pc = "check"
    /\ threads' = [threads EXCEPT ![t].pc = "listen"]
    /\ UNCHANGED <<eventQ, pushed>>
    /\ ThreadFrame

\* while not self._stop_event.is_set(): when the flag is set the loop and the
\* with block are left, which closes watch_pulse, and the thread ends.
WatcherCheck(t) ==
    /\ t <= Len(threads)
    /\ threads[t].pc = "check"
    /\ threads' = [threads EXCEPT ![t] = IF stop_event
                                         THEN [@ EXCEPT !.pc = "done", !.conn = "closed"]
                                         ELSE [@ EXCEPT !.pc = "listen"]]
    /\ UNCHANGED <<eventQ, pushed>>
    /\ ThreadFrame

\* event_listen(timeout=1.0) returns after its timeout with no event.
WatcherTimeout(t) ==
    /\ t <= Len(threads)
    /\ threads[t].pc = "listen"
    /\ threads' = [threads EXCEPT ![t].pc = "check", ![t].last = "timeout"]
    /\ UNCHANGED <<eventQ, pushed>>
    /\ ThreadFrame

\* A callback that, besides queueing the index, runs the reconciliation pass
\* itself on the connection of the main loop.
WatcherEventApplying(t, idx) ==
    /\ t <= Len(threads)
    /\ threads[t].pc = "listen"
    /\ Len(pushed) < MaxPushes
    /\ eventQ' = Append(eventQ, idx)
    /\ pushed' = Append(pushed, idx)
    /\ threads' = [threads EXCEPT ![t].pc = "check", ![t].last = "event"]
    /\ Commit(reapply_app_volumes(Audio, knob_norms))
    /\ UNCHANGED <<parserVars, lifeVars>>
    /\ UNCHANGED <<paUp, livePlayers, playerctl, now, mpris, call, ret>>
    /\ UNCHANGED <<pc, knob_norms, last_reapply, leds, shown, sinceKnob, pass, lastPass>>
    /\ UNCHANGED <<had_events, taken, watcher_thread>>

\* event_listen delivers a sink-input event to _cb: the index is put on the
\* queue, PulseLoopStop ends the listen and is caught.
WatcherEvent(t, idx) ==
    /\ t <= Len(threads)
    /\ threads[t].pc = "listen"
    /\ Len(pushed) < MaxPushes
    /\ eventQ' = Append(eventQ, idx)
    /\ pushed' = Append(pushed, idx)
    /\ threads' = [threads EXCEPT ![t].pc = "check", ![t].last = "event"]
    /\ ThreadFrame

\* An error while listening that leaves _event_loop uncaught.
WatcherErrorFatal(t) ==
    /\ t <= Len(threads)
    /\ threads[t].pc = "listen"
    /\ threads[t].errors < MaxErrors
    /\ threads' = [threads EXCEPT ![t].pc = "done", ![t].conn = "closed",
                                  ![t].errors = @ + 1, ![t].last = "error"]
    /\ UNCHANGED <<eventQ, pushed>>
    /\ ThreadFrame

\* event_listen raises an Exception other than PulseLoopStop: it is logged
\* and time.sleep(0.5) begins.
WatcherError(t) ==
    /\ t <= Len(threads)
    /\ threads[t].pc = "listen"
    /\ threads[t].errors < MaxErrors
    /\ threads' = [threads EXCEPT ![t].pc = "sleep", ![t].errors = @ + 1,
                                  ![t].last = "error"]
    /\ UNCHANGED <<eventQ, pushed>>
    /\ ThreadFrame

\* time.sleep(0.5) is over.
WatcherSleep(t) ==
    /\ t <= Len(threads)
    /\ threads[t].pc = "sleep"
    /\ threads' = [threads EXCEPT ![t].pc = "check"]
    /\ UNCHANGED <<eventQ, pushed>>
    /\ ThreadFrame

NextWatcher ==
    \/ StartWatching
    \/ Close
    \/ \E t \in ThreadIds : \E ok \in BOOLEAN : WatcherConnect(t, ok)
    \/ \E t \in ThreadIds : WatcherCheck(t)
    \/ \E t \in ThreadIds : WatcherTimeout(t)
    \/ \E t \in ThreadIds : \E idx \in StreamIndices : WatcherEvent(t, idx)
    \/ \E t \in ThreadIds : WatcherError(t)
    \/ \E t \in ThreadIds : WatcherSleep(t)

SpecWatcher == InitDrain /\ [][NextWatcher]_vars

\* The steps a watcher thread takes by itself in bounded time: the loop
\* test, the return of event_listen at its timeout, the end of the sleep.
WatcherProgress ==
    \E t \in ThreadIds :
        \/ WatcherConnect(t, TRUE)
        \/ WatcherCheck(t)
        \/ WatcherTimeout(t)
        \/ WatcherSleep(t)

\* The thread is scheduled: event_listen and time.sleep are bounded.
SpecWatcherFair == SpecWatcher /\ WF_vars(WatcherProgress)

-----------------------------------------------------------------------------
(* The main loop, its outages and the watcher thread together: SpecOutage *)

\* What one read returns while the device is connected.
OutageChunks == {EncodeAll(<<Knob(2, 405)>>)}

\* The index of the stream whose events the watcher sees.
OutageIndices == {7}

\* main() up to the outer loop: pulse.start_watching() has started the thread.
InitOutage ==
    /\ InitMain
    /\ had_events = FALSE
    /\ taken = <<>>
    /\ pushed = <<>>
    /\ threads = <<NewThread>>
    /\ watcher_thread = 1

NextOutage ==
    \/ Connect
    \/ \E chunk \in OutageChunks : ReadBytes(chunk)
    \/ ReadNothing
    \/ ConfigCheck
    \/ Reconcile
    \/ \E error \in Errors : Failure(error)
    \/ Backoff
    \/ Shutdown
    \/ \E t \in ThreadIds : \E ok \in BOOLEAN : WatcherConnect(t, ok)
    \/ \E t \in ThreadIds : WatcherCheck(t)
    \/ \E t \in ThreadIds : WatcherTimeout(t)
    \/ \E t \in ThreadIds : \E idx \in OutageIndices : WatcherEvent(t, idx)

SpecOutage == InitOutage /\ [][NextOutage]_vars

-----------------------------------------------------------------------------
(* The conversion functions called one by one: SpecPure *)

\* LED configurations as _validate_leds returns them, and knob positions:
\* below 0, the ends of the range, inside it, above 1.
LedModes == {"off", "static", "volume"}
LedColors == {<<255, 0, 0>>, <<0, 255, 0>>, <<10, 200, 255>>, <<0, 0, 0>>}
LedConfigs ==
    [mode : LedModes, low_color : LedColors, high_color : LedColors]
LedNorms == {-2500, 0, 1, 2900, 4002, 5000, 9999, ONE, 20000}

\* The colours a packet is built from: one of three per knob.
PacketColors == {<<1, 2, 3>>, <<40, 50, 60>>, <<255, 0, 128>>}
ColorVectors == [1..NUM_KNOBS -> PacketColors]

InitPure ==
    /\ WorldIdle /\ FacadeIdle /\ DaemonIdle /\ ParserIdle
    /\ LifeIdle /\ DrainIdle

CallGetLedColor(cfg, norm) ==
    /\ call = NoCall
    /\ call' = [op |-> "get_led_color", led_cfg |-> cfg, norm |-> norm]
    /\ ret' = <<get_led_color(cfg, norm)>>
    /\ UNCHANGED <<parserVars, worldVars, mpris, players, playersTs, trace>>
    /\ UNCHANGED <<daemonVars, lifeVars, drainVars>>

CallBuildLedPacket(colors) ==
    /\ call = NoCall
    /\ call' = [op |-> "build_led_packet", colors |-> colors]
    /\ ret' = <<build_led_packet(colors)>>
    /\ UNCHANGED <<parserVars, worldVars, mpris, players, playersTs, trace>>
    /\ UNCHANGED <<daemonVars, lifeVars, drainVars>>

CallKnobToNorm(value) ==
    /\ call = NoCall
    /\ call' = [op |-> "knob_to_norm", value |-> value]
    /\ ret' = <<knob_to_norm(value)>>
    /\ UNCHANGED <<parserVars, worldVars, mpris, players, playersTs, trace>>
    /\ UNCHANGED <<daemonVars, lifeVars, drainVars>>

CallKnobToVolume(value) ==
    /\ call = NoCall
    /\ call' = [op |-> "knob_to_volume", value |-> value]
    /\ ret' = <<knob_to_volume(value)>>
    /\ UNCHANGED <<parserVars, worldVars, mpris, players, playersTs, trace>>
    /\ UNCHANGED <<daemonVars, lifeVars, drainVars>>

\* The caller has used the value.
PureReturn ==
    /\ call # NoCall
    /\ call' = NoCall
    /\ ret' = <<>>
    /\ UNCHANGED <<parserVars, worldVars, mpris, players, playersTs, trace>>
    /\ UNCHANGED <<daemonVars, lifeVars, drainVars>>

NextPure ==
    \/ \E cfg \in LedConfigs : \E norm \in LedNorms : CallGetLedColor(cfg, norm)
    \/ \E colors \in ColorVectors : CallBuildLedPacket(colors)
    \/ \E value \in 0..KNOB_MAX : CallKnobToNorm(value)
    \/ \E value \in 0..KNOB_MAX : CallKnobToVolume(value)
    \/ PureReturn

SpecPure == InitPure /\ [][NextPure]_vars

-----------------------------------------------------------------------------
(* Claims about the protocol parser, checked under SpecParser *)

\* The whole wire was delivered by one read into the empty buffer.
OneRead == pos = Len(sent) /\ data = sent

\* C1: parsing the concatenation of N well-formed frames in one call returns
\* exactly the N messages the frames encode (type, id, press/release action,
\* value = hi*256 + lo), in frame order, and an empty remainder.
C1_FramesRoundTrip ==
    (kind = "frames" /\ OneRead) => (messages = script /\ buf = <<>>)

C1_Witness ==
    /\ kind = "frames" /\ OneRead
    /\ Len(script) = MaxFrames
    /\ script[1] = Knob(3, 254) /\ script[2] = Button("release", 4)
    /\ messages = script

\* C2: whole frames delivered in chunks cut at frame boundaries and fed one by
\* one through the buffer of the main loop emit the same messages as one
\* parse_messages call on the whole concatenation.
C2_ChunkedEqualsWhole ==
    (kind = "frames" /\ aligned /\ pos = Len(sent))
        => log = parse_messages(sent).messages

C2_Witness ==
    /\ kind = "frames" /\ aligned /\ pos = Len(sent)
    /\ Len(script) = MaxFrames
    /\ data = Encode(script[MaxFrames])
    /\ Len(log) = MaxFrames /\ Len(messages) = 1

\* No 0xFE of the garbage in front of the frame starts a layout that matches
\* in the bytes sent.
GarbageMatchesNothing ==
    \A i \in 1..Len(Garbage) : sent[i] = 254 => FrameAt(sent, i) = 0

\* No index of the chunk starts a complete frame.
NoFrameIn(b) == \A i \in 1..Len(b) : b[i] = 254 => FrameAt(b, i) = 0

\* C3: bytes that belong to no complete frame (bytes other than 0xFE, a 0xFE
\* whose following bytes match no layout, an incomplete frame at the end of
\* the buffer) produce no message and are fully consumed: the remainder is
\* empty after every parse, and a complete frame behind garbage is emitted.
C3_GarbageConsumed ==
    /\ buf = <<>>
    /\ (pos > 0 /\ NoFrameIn(data)) => messages = <<>>
    /\ (kind = "mixed" /\ OneRead /\ GarbageMatchesNothing) => messages = script

C3_Witness ==
    /\ kind = "mixed" /\ OneRead /\ GarbageMatchesNothing
    /\ Garbage = <<254, 6>>
    /\ messages = script /\ script = <<Heartbeat>>
    /\ buf = <<>>

\* C4 as claimed: of a truncated frame at the end of the buffer only the
\* marker byte is discarded, and the partial payload behind it is returned in
\* the remainder.
C4_Original ==
    (kind = "truncated" /\ OneRead)
        => buf = SubSeq(TruncatedTail, 2, Len(TruncatedTail))

\* C4 as amended: a truncated frame at the end of the buffer is consumed
\* whole, marker and partial payload: the complete frames in front of it are
\* emitted, the remainder is empty and nothing of the truncated frame is left
\* for the next read.
C4_TruncatedConsumed ==
    (kind = "truncated" /\ OneRead)
        => (messages = script /\ Len(buf) = 0 /\ log = script)

C4_Witness ==
    /\ kind = "truncated" /\ OneRead
    /\ script = <<Heartbeat>>
    /\ TruncatedTail = <<254, 3, 1, 3, 244>>
    /\ messages = <<Heartbeat>> /\ buf = <<>>

-----------------------------------------------------------------------------
(* Claims about the audio facade, checked under SpecAudio *)

\* The last call asked the media player to set its volume and it did.
MprisSetOk == \E k \in 1..Len(trace) : trace[k].fn = "set" /\ trace[k].ok

\* The last call made a call on the stream backend.
PulseTouched ==
    \E k \in 1..Len(trace) : trace[k].fn \in {"sink_input_list", "volume_set_all_chans"}

\* The volume_set_all_chans calls of the last call on stream s.
WritesTo(s) ==
    {k \in 1..Len(trace) : trace[k].fn = "volume_set_all_chans" /\ trace[k].stream = s}

\* C5: when the media-player backend is present and its set_volume succeeds,
\* set_app_volume neither lists nor writes a stream; the stream backend is
\* touched only after a failed media-player set or without such a backend.
C5_MprisSuccessSkipsPulse ==
    call.op = "set_app_volume" =>
        /\ MprisSetOk => (mpris /\ ~PulseTouched)
        /\ PulseTouched => (~mpris \/ ~MprisSetOk)

C5_Witness ==
    /\ call.op = "set_app_volume" /\ call.app = AppSP /\ call.volume = 4000
    /\ MprisSetOk /\ ~PulseTouched
    /\ slider[PlayerSp] = 4000
    /\ sinkInputs[3] = ONE

\* The media player gave the last get call a concrete value.
MprisGotValue ==
    /\ call.reply = "number"
    /\ \E k \in 1..Len(trace) : trace[k].fn = "get" /\ trace[k].ok

\* The capped volume of the first stream of the application, <<>> without one
\* or with the stream backend failing.
StreamValue(app) ==
    LET mine == {s \in 1..Len(sinkInputs) : Owns(app, s)} IN
    IF ~paUp \/ mine = {} THEN <<>>
    ELSE <<Min(ONE, sinkInputs[CHOOSE s \in mine : \A t \in mine : s <= t])>>

\* C6: get_app_volume_norm returns the media player's value when it yields one,
\* without touching the stream backend; otherwise the volume of the first
\* matching stream capped at 1.0, and None without a match or on failure.
C6_GetPrefersMpris ==
    call.op = "get_app_volume_norm" =>
        IF mpris /\ MprisGotValue
        THEN /\ \E k \in 1..Len(trace) :
                    /\ trace[k].fn = "get"
                    /\ ret = <<Clamp(slider[trace[k].player], 0, ONE)>>
             /\ ~PulseTouched
        ELSE ret = StreamValue(call.app)

C6_Witness ==
    /\ call.op = "get_app_volume_norm" /\ call.app = AppBr
    /\ mpris /\ ~MprisGotValue
    /\ sinkInputs[1] > ONE
    /\ ret = <<ONE>>

\* C7: when set_app_volume falls back to the stream backend, every stream of
\* the application (matched by name or by binary, in any case) is set to the
\* clamped volume, and no other stream is written.
C7_FallbackSetsAllMatching ==
    (call.op = "set_app_volume"
        /\ \E k \in 1..Len(trace) : trace[k].fn = "sink_input_list" /\ trace[k].ok)
    => \A s \in 1..Len(sinkInputs) :
            IF Owns(call.app, s)
            THEN /\ sinkInputs[s] = Clamp(call.volume, 0, VOLUME_MAX)
                 /\ Cardinality(WritesTo(s)) = 1
                 /\ \A k \in WritesTo(s) : trace[k].vol = sinkInputs[s]
            ELSE WritesTo(s) = {}

C7_Witness ==
    /\ call.op = "set_app_volume" /\ call.app = AppBr /\ call.volume = -500
    /\ WritesTo(1) # {} /\ WritesTo(2) # {} /\ WritesTo(3) = {}
    /\ sinkInputs = <<0, 0, ONE>>

-----------------------------------------------------------------------------
(* Claims about the daemon, checked under Spec *)

\* C8: LED writes are deduplicated across knob events: handle_knob writes an
\* LED packet only if the freshly computed 5-colour vector differs from the
\* vector of the last packet written.
C8_LedWritesDeduplicated ==
    \A k \in 1..Len(leds) :
        leds[k].cause = "knob" => leds[k].colors # leds[k].prev

\* A reconciliation pass has just run: call, trace and pass describe it.
PassRan == call.op = "reapply"

\* The volume a stream is to have: that of the knob whose application owns it.
TargetOf(k) == IF Owns(AppBr, k) THEN knob_norms[2] ELSE knob_norms[1]

\* C9: a reconciliation pass rewrites a stream only when its volume differs
\* from the target by more than 0.01, it writes the target, each stream at
\* most once; and a pass that runs again while the knob state, the streams and
\* the backends are as the last pass left them performs no stream write.
C9_HysteresisAndIdempotence ==
    PassRan =>
        LET writes == StreamWrites(trace) IN
        /\ \A k \in 1..Len(writes) :
              /\ Abs(writes[k].was - writes[k].vol) > HYSTERESIS
              /\ writes[k].vol = TargetOf(writes[k].stream)
              /\ sinkInputs[writes[k].stream] = writes[k].vol
              /\ \A j \in 1..Len(writes) : writes[j].stream = writes[k].stream => j = k
        /\ pass.again => writes = <<>>

\* A stream at 1.0 with target 0.4 was rewritten to 0.4 by the last pass, and
\* the pass has run again with nothing changed: it wrote nothing, and a
\* stream within 0.01 of the target (0.405) was never written.
C9_Witness ==
    /\ PassRan
    /\ pass.again
    /\ pass.prev = <<StreamWrite(1, 4000, ONE)>>
    /\ StreamWrites(trace) = <<>>
    /\ sinkInputs[1] = 4000
    /\ sinkInputs[2] = 4050

\* C10: a reconciliation pass triggered by a pending watcher event (the timer
\* has not expired) runs only if at least 200 ms have passed since handle_knob
\* last ran.
C10_KnobQuietGate ==
    (PassRan /\ pass.cause = "event") => sinceKnob >= KNOB_QUIET

-----------------------------------------------------------------------------
(* Claims about the dispatcher, checked under SpecKnobs and SpecButtons *)

\* The step dispatched exactly one message, and it is a knob message.
OneKnobDispatched ==
    call.op = "dispatch" /\ Len(messages) = 1 /\ messages[1].type = "knob"

DeviceCalls(tr) == SelectSeq(tr, LAMBDA c : c.device # "")
PlayerSets(tr) == SelectSeq(tr, LAMBDA c : c.fn = "set")

\* The players that belong to an application of the model, written out.
PlayersOf(app) ==
    IF app = AppSP THEN PlayerIds ELSE IF app = App2 THEN {PlayerSp2} ELSE {}

\* The trace is that of setting the applications of `targets` to vol and of
\* nothing else.
RoutedToApps(targets, vol) ==
    /\ DeviceCalls(trace) = <<>>
    /\ \A k \in 1..Len(trace) :
          /\ trace[k].fn = "volume_set_all_chans" =>
                /\ \E app \in targets : Owns(app, trace[k].stream)
                /\ trace[k].vol = vol
          /\ trace[k].fn = "set" =>
                /\ \E app \in targets : trace[k].player \in PlayersOf(app)
                /\ trace[k].vol = vol
    /\ \A app \in targets :
          \/ \E k \in 1..Len(trace) :
                trace[k].fn = "set" /\ trace[k].ok /\ trace[k].player \in PlayersOf(app)
          \/ ~paUp
          \/ \A s \in 1..Len(sinkInputs) : Owns(app, s) => sinkInputs[s] = vol

\* The trace is one call on the device `name` resolves to.
RoutedToDevice(fn, lookup, name, current, vol) ==
    IF paUp
    THEN trace = <<DeviceCall(fn, IF name = "default" THEN current ELSE name, vol, TRUE)>>
    ELSE trace = <<DeviceCall(lookup, name, 0, FALSE)>>

\* C12: handle_knob calls exactly the facade operation of the knob's action:
\* sink_volume sets the named or default sink to vol = knob_to_volume(raw)
\* (VOLUME_MAX for raw 1012), source_volume the named or default source to
\* norm, app_volume the one target application to vol, group_volume every
\* application of the targets list to vol; each within the range the
\* operation clamps to.
C12_KnobRouting ==
    (OneKnobDispatched /\ messages[1].id \in DOMAIN ConfigKnobs) =>
        LET msg == messages[1]
            knob_cfg == ConfigKnobs[msg.id]
            vol == Clamp(knob_to_volume(msg.value), 0, VOLUME_MAX)
            norm == Clamp(knob_to_norm(msg.value), 0, ONE)
        IN /\ knob_cfg.action = "sink_volume" =>
                /\ RoutedToDevice("sink_volume_set", "get_sink_by_name", knob_cfg.target,
                                  devices.defaultSink, vol)
                /\ paUp => devices.sinks[devices.defaultSink].vol = vol
                /\ (paUp /\ msg.value = KNOB_MAX) =>
                      devices.sinks[devices.defaultSink].vol = VOLUME_MAX
           /\ knob_cfg.action = "source_volume" =>
                /\ RoutedToDevice("source_volume_set", "get_source_by_name", knob_cfg.target,
                                  devices.defaultSource, norm)
                /\ paUp => devices.sources[devices.defaultSource].vol = norm
           /\ knob_cfg.action = "app_volume" => RoutedToApps({knob_cfg.target}, vol)
           /\ knob_cfg.action = "group_volume" =>
                RoutedToApps({knob_cfg.targets[k] : k \in 1..Len(knob_cfg.targets)}, vol)

\* The group knob was turned to raw 405 with no player running: stream 3,
\* the stream of the group's application, is at 0.4002 and the streams of the
\* other application are untouched.
C12_Witness ==
    /\ OneKnobDispatched
    /\ messages[1] = Knob(1, 405)
    /\ StreamWrites(trace) = <<StreamWrite(3, 4002, ONE)>>
    /\ sinkInputs = <<4000, 4050, 4002>>

\* The step dispatched button messages only.
ButtonsDispatched ==
    call.op = "dispatch" /\ messages # <<>>
    /\ \A k \in 1..Len(messages) : messages[k].type = "button"

\* C13: a release message triggers nothing, whatever the button: no backend
\* call, no mute flag changed, no command started; a press does for a
\* configured button, and only for one.
C13_ReleaseIgnored ==
    [][ (ButtonsDispatched' /\ Len(messages') = 1) =>
          LET msg == messages'[1] IN
          IF msg.action = "press" /\ msg.id \in DOMAIN ConfigButtons
          THEN Len(trace') = 1
          ELSE trace' = <<>> /\ UNCHANGED <<devices, sinkInputs, slider, knob_norms>>
      ]_vars

\* Button 0 (mute_sink) was released after the default sink had been muted:
\* no call was made and the sink is still muted.
C13_Witness ==
    /\ ButtonsDispatched
    /\ messages = <<Button("release", 0)>>
    /\ trace = <<>>
    /\ devices.sinks[devices.defaultSink].mute

\* The device a mute button acts on, given the devices before the press.
MuteTarget(btn_cfg, dev) ==
    IF btn_cfg.target # "default" THEN btn_cfg.target
    ELSE IF btn_cfg.action = "mute_sink" THEN dev.defaultSink ELSE dev.defaultSource

\* C14: a press on a mute_sink (mute_source) button inverts the mute flag of
\* the named device, or of the current default, and changes no volume and no
\* other device (nothing at all while the audio connection is down); two
\* presses in a row restore the mute state.
C14_MuteToggle ==
    [][ (ButtonsDispatched' /\ messages'[1].action = "press"
         /\ messages'[1].id \in DOMAIN ConfigButtons
         /\ ConfigButtons[messages'[1].id].action \in {"mute_sink", "mute_source"}) =>
          LET btn_cfg == ConfigButtons[messages'[1].id]
              n == MuteTarget(btn_cfg, devices)
          IN IF ~paUp \/ Len(messages') = 2 THEN devices' = devices
             ELSE IF btn_cfg.action = "mute_sink"
                THEN devices' = [devices EXCEPT !.sinks[n].mute = ~devices.sinks[n].mute]
             ELSE devices' = [devices EXCEPT !.sources[n].mute = ~devices.sources[n].mute]
      ]_vars

\* After the default sink changed to "usb", one press on button 0 muted
\* "usb" and left "hdmi" alone.
C14_Witness ==
    /\ ButtonsDispatched
    /\ messages = <<Button("press", 0)>>
    /\ devices.defaultSink = "usb"
    /\ devices.sinks["usb"].mute
    /\ ~devices.sinks["hdmi"].mute
    /\ trace = <<DeviceCall("sink_mute", "usb", 0, TRUE)>>

\* C15: every button and knob message the parser emits has an id in 0..4, and
\* every knob message a raw value in 0..1012.
C15_IdsAndValuesInRange ==
    \A k \in 1..Len(log) :
        /\ log[k].type \in {"button", "knob"} => log[k].id \in 0..(NUM_KNOBS - 1)
        /\ log[k].type = "knob" => log[k].value \in 0..KNOB_MAX

\* C16: every entry of KnobState is a normalised position in [0, 1].
C16_KnobStateNormalised ==
    \A k \in KnobIds : knob_norms[k] >= 0 /\ knob_norms[k] <= ONE

\* C17: every volume written to a sink, a source, a stream or a media player
\* lies in [0, VOLUME_MAX].
C17_WrittenVolumesInRange ==
    \A k \in 1..Len(trace) :
        trace[k].fn \in {"sink_volume_set", "source_volume_set", "volume_set_all_chans", "set"}
            => trace[k].vol >= 0 /\ trace[k].vol <= VOLUME_MAX

-----------------------------------------------------------------------------
(* Claims about the controllers, checked under SpecFacade *)

\* No running player belongs to the application.
NoLivePlayer(app) ==
    \A k \in 1..Len(livePlayers) : livePlayers[k] \notin PlayersOf(app)

\* C18: no backend failure reaches a caller.  When the utility is missing or
\* times out, no player is found or the reply is not a number, set_volume
\* returns False and get_volume returns None; when the audio connection
\* raises, the set and toggle operations of PulseController return with no
\* effect and the get operations return None.
C18_FailuresNeutral ==
    [][ /\ (call'.op = "set_volume" /\ (playerctl = "fail" \/ NoLivePlayer(call'.app)))
              => (ret' = <<FALSE>> /\ slider' = slider)
        /\ (call'.op = "get_volume"
            /\ (playerctl = "fail" \/ NoLivePlayer(call'.app)
                \/ call'.reply \in {"text", "empty"}))
              => (ret' = <<>> /\ slider' = slider)
        /\ (call'.op \in {"set_sink_volume", "set_source_volume", "toggle_mute_sink",
                          "toggle_mute_source", "get_sink_volume_norm",
                          "get_source_volume_norm"} /\ ~paUp)
              => (ret' = <<>> /\ devices' = devices)
      ]_vars

\* get_volume asked a running player that replied with text: None.
C18_Witness ==
    /\ call.op = "get_volume" /\ call.reply = "text"
    /\ playerctl = "ok"
    /\ trace # <<>> /\ trace[Len(trace)].fn = "get" /\ trace[Len(trace)].ok
    /\ ret = <<>>

C20_FirstMatchInListOrder ==
    call.op = "find_player" =>
        IF \E k \in 1..Len(players) : players[k] \in PlayersOf(call.app)
        THEN \E k \in 1..Len(players) :
                /\ ret = <<players[k]>>
                /\ players[k] \in PlayersOf(call.app)
                /\ \A j \in 1..(k - 1) : players[j] \notin PlayersOf(call.app)
        ELSE ret = <<>>

\* Both cached players contain "sp"; the one listed first is returned.
C20_Witness ==
    /\ call.op = "find_player" /\ call.app = AppSP
    /\ players = <<PlayerSp2, PlayerSp>>
    /\ ret = <<PlayerSp2>>

-----------------------------------------------------------------------------
(* Claims about the conversion functions, checked under SpecPure *)

\* C22: get_led_color returns (0,0,0) in mode off, high_color in mode static
\* for every norm, and in mode volume per channel
\* low + (high - low) * clamp(norm, 0, 1) cut to an integer, so that norm 0
\* (or below) gives low_color and norm 1 (or above) gives high_color; every
\* channel returned is in 0..255.
C22_LedColor ==
    call.op = "get_led_color" =>
        LET cfg == call.led_cfg
            c == ret[1]
            t == IF call.norm < 0 THEN 0 ELSE IF call.norm > ONE THEN ONE ELSE call.norm
        IN /\ cfg.mode = "off" => c = <<0, 0, 0>>
           /\ cfg.mode = "static" => c = cfg.high_color
           /\ cfg.mode = "volume" =>
                /\ \A k \in 1..3 :
                      LET x == cfg.low_color[k] * ONE
                               + (cfg.high_color[k] - cfg.low_color[k]) * t
                      IN c[k] * ONE <= x /\ x < (c[k] + 1) * ONE
                /\ call.norm <= 0 => c = cfg.low_color
                /\ call.norm >= ONE => c = cfg.high_color
           /\ Len(c) = 3 /\ \A k \in 1..3 : c[k] \in 0..255

\* Red to green at norm 2.0: green, as at norm 1.
C22_Witness ==
    /\ call.op = "get_led_color"
    /\ call.led_cfg = [mode |-> "volume", low_color |-> <<255, 0, 0>>,
                       high_color |-> <<0, 255, 0>>]
    /\ call.norm = 20000
    /\ ret = << <<0, 255, 0>> >>

C24_KnobConversion ==
    /\ call.op = "knob_to_norm" =>
          LET r == ret[1]
              err == r * KNOB_MAX - call.value * ONE
          IN /\ r >= 0 /\ r <= ONE
             /\ 2 * err <= KNOB_MAX /\ 2 * err >= -KNOB_MAX
             /\ call.value = 0 => r = 0
             /\ call.value = KNOB_MAX => r = ONE
    /\ call.op = "knob_to_volume" =>
          /\ call.value = 0 => ret[1] = 0
          /\ call.value = KNOB_MAX => ret[1] = VOLUME_MAX

\* 405 / 1012 = 0.40019...: 0.4002.
C24_Witness ==
    /\ call.op = "knob_to_norm" /\ call.value = 405
    /\ ret = <<4002>>

-----------------------------------------------------------------------------
(* Claims about the player list cache, checked under SpecCache *)

\* C21: a refresh that is not forced runs the listing only if at least
\* _CACHE_TTL (3 s) has passed since the refresh before it, whether that one
\* succeeded or failed, and otherwise leaves the cached list and its timestamp
\* as they are; a forced refresh always runs it.  A refresh that runs replaces
\* the cache by the list printed, or by the empty list when the listing
\* fails, and stamps it with the current time.
C21_CacheRefresh ==
    [][ call'.op = "_refresh_players" =>
          IF call'.force \/ now - playersTs >= CACHE_TTL
          THEN /\ trace' = <<PlayerctlCall("list", <<>>, 0, playerctl = "ok")>>
               /\ players' = IF playerctl = "ok" THEN livePlayers ELSE <<>>
               /\ playersTs' = now
          ELSE /\ trace' = <<>>
               /\ UNCHANGED <<players, playersTs>>
      ]_vars

\* 2.9 s after a refresh that left the cache empty, with a player running by
\* now and the utility working: the call does not list, the cache stays empty.
C21_Witness ==
    /\ call.op = "_refresh_players" /\ ~call.force
    /\ now - playersTs = CACHE_TTL - 1
    /\ playerctl = "ok" /\ livePlayers # <<>>
    /\ players = <<>>
    /\ trace = <<>>

-----------------------------------------------------------------------------
(* Claims about heartbeats, checked under SpecKnobs *)

\* The step dispatched heartbeat messages only.
HeartbeatsDispatched ==
    call.op = "dispatch" /\ messages # <<>>
    /\ \A k \in 1..Len(messages) : messages[k].type = "heartbeat"

\* C25: every heartbeat the main loop processes writes one LED packet for
\* the current KnobState, also when its colours are those of the packet
\* before, and changes neither KnobState nor any volume.
C25_HeartbeatRefresh ==
    [][ HeartbeatsDispatched' =>
          /\ Len(leds') = Len(messages')
          /\ \A k \in 1..Len(leds') :
                /\ leds'[k].colors = all_led_colors(knob_norms)
                /\ leds'[k].packet = build_led_packet(all_led_colors(knob_norms))
          /\ trace' = <<>>
          /\ UNCHANGED <<knob_norms, sinkInputs, devices, slider>>
      ]_vars

\* Two heartbeats in one read after knob 2 was turned to 0.4002: two
\* packets with the same colours, the second equal to what the device shows.
C25_Witness ==
    /\ HeartbeatsDispatched
    /\ Len(messages) = 2
    /\ knob_norms[2] = 4002
    /\ Len(leds) = 2
    /\ leds[2].prev = leds[2].colors
    /\ leds[2].colors[3] = <<152, 102, 0>>

-----------------------------------------------------------------------------
(* Claims about the life of the process, checked under SpecLife *)

\* C26: every step that opens the serial connection leaves the byte buffer
\* empty and writes one LED packet for the current KnobState before any
\* read; the read loop is entered from outside only by such a step, so the
\* first read after it parses the bytes of the new connection alone; a
\* failure, the backoff and the reconnection leave KnobState as it was.
C26_Reconnection ==
    [][ /\ (pc = "connect" /\ pc' = "read") =>
              /\ buf' = <<>>
              /\ Len(leds') = 1
              /\ leds'[1].cause = "connect"
              /\ leds'[1].packet = build_led_packet(all_led_colors(knob_norms))
              /\ knob_norms' = knob_norms
        /\ (pc # "read" /\ pc' = "read") => pc \in {"connect", "trigger"}
        /\ (call.op = "connect" /\ call'.op = "dispatch") =>
              \E chunk \in LifeChunks :
                  /\ messages' = parse_messages(chunk).messages
                  /\ buf' = parse_messages(chunk).remainder
        /\ (pc \in {"backoff", "connect"} \/ pc' = "backoff") => knob_norms' = knob_norms
      ]_vars

\* The connection is open again after a failure; knob 2 was turned to 0.4002
\* on the connection before and the packet written shows it.
C26_Witness ==
    /\ pc = "read" /\ call.op = "connect"
    /\ now = RETRY_DELAY
    /\ buf = <<>>
    /\ knob_norms[2] = 4002
    /\ Len(leds) = 1
    /\ leds[1].colors[3] = <<152, 102, 0>>

\* C27: a serial failure or any other error raised while connecting,
\* reading, dispatching or reconciling takes the main loop to the backoff,
\* from which it opens the device again RETRY_DELAY later; the process stops
\* running only by the signal handler or by the configuration restart.
C27_RetryForever ==
    [][ /\ call'.op = "except" => (Running /\ pc' = "backoff" /\ now' = now)
        /\ (pc = "backoff" /\ pc' # "backoff") =>
              \/ pc' = "connect" /\ now' = now + RETRY_DELAY
              \/ pc' = "exited" /\ call'.op = "_shutdown"
        /\ (Running /\ ~Running') => call'.op \in {"_shutdown", "config_check"}
      ]_vars

\* An unexpected error in the reconciliation pass of a connection that was
\* itself opened after a failure.
C27_Witness ==
    /\ pc = "backoff"
    /\ call.op = "except" /\ call.error = "Exception" /\ call.at = "trigger"
    /\ now = RETRY_DELAY

\* C28: the signal handler, run in any state of the main loop, sets the stop
\* flag of the watcher, closes the audio connection and ends the process;
\* the process never leaves the exited state, and reaches it by the handler
\* only.
C28_OrderlyShutdown ==
    [][ /\ call'.op = "_shutdown" => (stop_event' /\ pulse_closed' /\ pc' = "exited")
        /\ pc' = "exited" => (Running /\ call'.op = "_shutdown")
        /\ pc # "exited"
      ]_vars

\* The signal arrived during the backoff.
C28_Witness ==
    /\ pc = "exited"
    /\ call.op = "_shutdown" /\ call.at = "backoff"
    /\ stop_event /\ pulse_closed

-----------------------------------------------------------------------------
(* Claims about the event queue, checked under SpecDrain *)

\* drain_events has returned.
Drained == pc = "idle" /\ call.op = "drain_events" /\ ret # <<>>

\* C30: drain_events returns True exactly when it took an index off the
\* queue, so True when the queue held one at the call and False when the
\* queue was empty and nothing was put meanwhile; every iteration either
\* takes the head or leaves the loop, whatever the queue holds; with nothing
\* put during the call it has taken what the queue held and the queue is
\* empty; the indices ever put are those taken followed by those queued.
C30_DrainEvents ==
    /\ pushed = taken \o eventQ
    /\ pc = "get" => (call.op = "drain_events"
                      /\ had_events = (Len(taken) > call.taken))
    /\ Drained =>
          /\ ret[1] = (Len(taken) > call.taken)
          /\ call.queue # <<>> => ret[1]
          /\ (call.queue = <<>> /\ Len(pushed) = call.pushed) => ~ret[1]
          /\ Len(pushed) = call.pushed =>
                /\ eventQ = <<>>
                /\ SubSeq(taken, call.taken + 1, Len(taken)) = call.queue
          /\ SubSeq(pushed, 1, Len(taken)) = taken

\* The queue was empty at the call; the watcher put 7 before the first
\* get_nowait and 9 after the last: the drain returned True, took 7 and left
\* 9 for the next drain.
C30_Witness ==
    /\ Drained
    /\ call.queue = <<>>
    /\ ret[1]
    /\ taken = <<7>>
    /\ eventQ = <<9>>

-----------------------------------------------------------------------------
(* Claims about frames split across reads, checked under SpecParser *)

\* s is t with some of its elements left out.
RECURSIVE IsSubsequence(_, _)
IsSubsequence(s, t) ==
    IF s = <<>> THEN TRUE
    ELSE IF t = <<>> THEN FALSE
    ELSE IF Head(s) = Head(t) THEN IsSubsequence(Tail(s), Tail(t))
    ELSE IsSubsequence(s, Tail(t))

\* C32: when a read ends inside a well-formed frame, the part of the frame
\* read so far is consumed without a message and the buffer handed to the
\* next read is empty, so the frame is never emitted: a single frame leaves
\* the log empty, and of several frames the log holds fewer messages than
\* were sent and none that was not sent.
C32_SplitFrameLost ==
    (kind = "frames" /\ ~aligned) =>
        /\ buf = <<>>
        /\ Len(script) = 1 => log = <<>>
        /\ pos = Len(sent) => (Len(log) < Len(script) /\ IsSubsequence(log, script))

\* The knob frame FE 03 03 00 FE FF was cut in front of its low byte 0xFE:
\* the second read delivered FE FF and nothing was emitted.
C32_Witness ==
    /\ kind = "frames" /\ ~aligned
    /\ script = <<Knob(3, 254)>>
    /\ pos = Len(sent)
    /\ data = <<254, 255>>
    /\ messages = <<>> /\ log = <<>>

-----------------------------------------------------------------------------
(* Claims about the watcher's events in the main loop, checked under Spec *)

\* C33: the trigger check of a loop iteration that finds stream indices in
\* the queue empties the queue and runs a reconciliation pass in the same
\* iteration, whether or not the timer is due as well; the queue loses
\* indices by the trigger check only, so none is dropped without a pass.
C33_EventsReconciled ==
    [][ /\ (pc = "trigger" /\ pc' = "read" /\ eventQ # <<>>) =>
              /\ eventQ' = <<>>
              /\ call'.op = "reapply"
              /\ pass'.cause \in {"event", "both"}
              /\ last_reapply' = now
        /\ Len(eventQ') < Len(eventQ) => (pc = "trigger" /\ call'.op = "reapply")
      ]_vars

\* An index was pushed while the timer was due too: one pass for both.
C33_Witness ==
    /\ pc = "read" /\ call.op = "reapply"
    /\ pass.cause = "both"
    /\ eventQ = <<>>
    /\ last_reapply = now

-----------------------------------------------------------------------------
(* Claims about the reconciliation pass, checked under SpecReapply *)

\* The positions of the map whose application has a player in the cache.
WithPlayer(map, cache) ==
    SelectSeq([k \in 1..Len(map) |-> k],
              LAMBDA k : FirstPlayer(cache, map[k].app) # <<>>)

\* The applications of the map whose media-player set failed in the pass
\* that left the trace tr: no player found, or playerctl failed.
SetFailed(map, cache, tr) ==
    LET idx == WithPlayer(map, cache) IN
    {map[k].app : k \in {j \in 1..Len(map) : FirstPlayer(cache, map[j].app) = <<>>}}
    \cup {map[idx[j]].app : j \in {i \in 1..Len(idx) : ~PlayerSets(tr)[i].ok}}

\* What C34 says of a pass over `map` that found the player cache `cache`,
\* left the trace tr and turned the stream volumes `before` into `after`.
PassSplitsTargets(map, cache, tr, before, after) ==
    LET idx == WithPlayer(map, cache)
        sets == PlayerSets(tr)
        failed == SetFailed(map, cache, tr)
        lists == SelectSeq(tr, LAMBDA c : c.fn = "sink_input_list")
    IN /\ Len(sets) = Len(idx)
       /\ \A j \in 1..Len(idx) :
             /\ sets[j].player = FirstPlayer(cache, map[idx[j]].app)[1]
             /\ sets[j].vol = Clamp(map[idx[j]].vol, 0, ONE)
       /\ Len(lists) = IF failed = {} THEN 0 ELSE 1
       /\ Len(after) = Len(before)
       /\ \A k \in 1..Len(before) :
             after[k] # before[k] =>
                \E j \in 1..Len(map) :
                    map[j].app \in failed /\ Matches(map[j].app, k) /\ after[k] = map[j].vol
       /\ \A j \in 1..Len(tr) :
             tr[j].fn = "volume_set_all_chans" =>
                /\ \E a \in failed : Matches(a, tr[j].stream)
                /\ lists # <<>>

\* C34: a reconciliation pass calls the media-player set once for each
\* application of the map that has a player (for the others the lookup
\* fails), lists the streams once when at least one set failed and not at
\* all otherwise, and rewrites only streams that match an application whose
\* set failed, with that application's volume.
C34_PaOnlySubset ==
    [][ call'.op = "reapply" =>
            PassSplitsTargets(build_app_volume_map(knob_norms), players', trace',
                              sinkInputs, sinkInputs')
      ]_vars

\* Every application of the map was set through its player: three playerctl
\* writes, no listing of the streams, although their volumes differ from the
\* targets.
C34_Witness ==
    /\ call.op = "reapply"
    /\ Len(PlayerSets(trace)) = 3
    /\ \A j \in 1..Len(trace) : trace[j].fn \in {"list", "set"} /\ trace[j].ok
    /\ Len(sinkInputs) = 3
    /\ sinkInputs[1] = ONE
    /\ knob_norms[2] = 0

\* C39: no knob message is processed in these runs, so every knob is one
\* that has received no message since startup; a reconciliation pass then
\* changes neither the volume of a stream nor the slider of a player.
C39_OnlyKnobDerivedTargets ==
    [][ call'.op = "reapply" => (sinkInputs' = sinkInputs /\ slider' = slider) ]_vars

-----------------------------------------------------------------------------
(* Claims about failed LED writes, checked under SpecLedFailure *)

\* The last knob message of the batch for knob id, <<>> when there is none.
LastKnobMessage(msgs, id) ==
    LET S == {k \in 1..Len(msgs) : msgs[k].type = "knob" /\ msgs[k].id = id} IN
    IF S = {} THEN <<>> ELSE <<msgs[CHOOSE k \in S : \A j \in S : j <= k]>>

\* C35: a read dispatched while ser.write raises goes through as it does
\* otherwise, except that no packet reaches the device: every knob message
\* of the batch, also one behind a failed write, has made its audio call
\* and set its entry of KnobState, and the loop goes on to the trigger check
\* of the same iteration on the same connection.
C35_LedWriteFailureSwallowed ==
    [][ (call'.op = "dispatch" /\ ~ser_ok) =>
          /\ pc' = "trigger"
          /\ leds' = <<>> /\ shown' = shown
          /\ \A id \in DOMAIN ConfigKnobs :
                LET last == LastKnobMessage(messages', id) IN
                IF last = <<>> THEN knob_norms'[id] = knob_norms[id]
                ELSE knob_norms'[id] = knob_to_norm(last[1].value)
          /\ LastKnobMessage(messages', 0) # <<>> =>
                \E j \in 1..Len(trace') :
                    /\ trace'[j].device # ""
                    /\ trace'[j].vol = Clamp(knob_to_volume(LastKnobMessage(messages', 0)[1].value),
                                             0, VOLUME_MAX)
          /\ LastKnobMessage(messages', 2) # <<>> =>
                \A k \in 1..Len(sinkInputs') :
                    Matches(Lower(AppBr), k) =>
                        sinkInputs'[k] = knob_to_volume(LastKnobMessage(messages', 2)[1].value)
      ]_vars

\* Three messages in one read while writes fail: both knobs have taken
\* effect, nothing was written, the device still shows the colours of the
\* packet sent at connection.
C35_Witness ==
    /\ call.op = "dispatch" /\ ~ser_ok
    /\ pc = "trigger"
    /\ Len(messages) = 3
    /\ knob_norms[2] = 4002 /\ knob_norms[0] = ONE
    /\ sinkInputs[1] = 4002
    /\ leds = <<>>
    /\ shown # all_led_colors(knob_norms)

\* C31: start_watching called while the thread it holds is alive starts no
\* thread and changes nothing of the controller, the queue or the threads; a
\* thread is started only by start_watching and only when none is alive; so
\* after every sequence of start_watching and close calls, interleaved with
\* the threads' own steps, at most one watcher thread is alive.
C31_StartIdempotent ==
    [][ /\ Cardinality(AliveIn(threads')) <= 1
        /\ (/\ call' # call
            /\ call'.op = "start_watching"
            /\ watcher_thread # 0
            /\ watcher_thread \in AliveIn(threads))
           => /\ ~call'.started
              /\ UNCHANGED <<threads, watcher_thread, stop_event, pulse_closed,
                             eventQ, pushed>>
        /\ Len(threads') > Len(threads)
           => /\ call'.op = "start_watching" /\ call'.started
              /\ AliveIn(threads) = {}
              /\ threads' = Append(threads, NewThread)
              /\ watcher_thread' = Len(threads')
              /\ ~stop_event' ]_vars

\* C31's case: a second thread was started after the first had ended, and a
\* further start_watching found it alive and did nothing.
C31_Witness ==
    /\ call.op = "start_watching" /\ ~call.started
    /\ Len(threads) = 2
    /\ AliveIn(threads) = {2}
    /\ watcher_thread = 2

\* C36: an error raised by event_listen does not end the watcher thread: the
\* thread goes to its sleep with its connection kept, from the sleep back to
\* the loop test and, the stop flag not set, to the next event_listen; a
\* thread that has entered its loop ends only at a loop test that finds the
\* stop flag set; every index a listen delivers is appended to the queue.
C36_WatcherSurvivesErrors ==
    [][ \A t \in ThreadIds : t <= Len(threads) =>
          /\ (threads[t].pc = "listen" /\ threads'[t].errors > threads[t].errors)
             => /\ threads'[t].pc = "sleep"
                /\ threads'[t].conn = threads[t].conn
                /\ eventQ' = eventQ
          /\ (threads[t].pc = "sleep" /\ threads'[t] # threads[t])
             => threads'[t] = [threads[t] EXCEPT !.pc = "check"]
          /\ (threads[t].pc = "check" /\ threads'[t] # threads[t] /\ ~stop_event)
             => threads'[t] = [threads[t] EXCEPT !.pc = "listen"]
          /\ (threads[t].pc \in {"check", "listen", "sleep"} /\ threads'[t].pc = "done")
             => (stop_event /\ threads[t].pc = "check")
          /\ (threads[t].pc = "listen" /\ threads'[t].last = "event"
              /\ threads'[t] # threads[t])
             => /\ Len(eventQ') = Len(eventQ) + 1
                /\ SubSeq(eventQ', 1, Len(eventQ)) = eventQ
                /\ eventQ'[Len(eventQ')] \in StreamIndices ]_vars

\* C36's case: a thread that has met an error has since put an index on the
\* queue and is listening again, the stop flag not set.
C36_Witness ==
    /\ Len(threads) = 1
    /\ threads[1].errors = 1
    /\ threads[1].last = "event"
    /\ threads[1].pc = "listen"
    /\ ~stop_event
    /\ pushed = <<9>>

\* C37: once close has set the stop flag the watcher thread ends: the flag is
\* read at every loop test, a test that finds it set leaves the loop and
\* closes the thread's own connection, an event_listen or a sleep under way
\* leads only to that test (an event_listen by way of at most one sleep), the
\* flag is cleared only when no thread is alive, and the scheduled thread
\* reaches its end.
C37_StopTerminates ==
    /\ [][ /\ \A t \in ThreadIds : t <= Len(threads) =>
                /\ (stop_event /\ threads[t].pc = "check" /\ threads'[t] # threads[t])
                   => threads'[t] = [threads[t] EXCEPT !.pc = "done", !.conn = "closed"]
                /\ (threads[t].pc = "listen" /\ threads'[t] # threads[t])
                   => threads'[t].pc \in {"check", "sleep"}
                /\ (threads[t].pc = "sleep" /\ threads'[t] # threads[t])
                   => threads'[t].pc = "check"
                /\ threads'[t].pc = "done" => threads'[t].conn # "open"
           /\ (stop_event /\ ~stop_event') => AliveIn(threads) = {}
           /\ (~stop_event /\ stop_event') => (call'.op = "close" /\ pulse_closed') ]_vars
    /\ (stop_event ~> (AliveIn(threads) = {}))

\* C37's case: close was called while the thread was in its loop, and the
\* thread, whose last event_listen raised an error, has ended with its
\* connection closed.
C37_Witness ==
    /\ stop_event
    /\ call.op = "close"
    /\ Len(threads) = 1
    /\ threads[1] = [pc |-> "done", conn |-> "closed", errors |-> 1, last |-> "error"]

\* A step of the watcher thread, told from a step of the main loop.
WatcherStep == threads' # threads

\* C38: in every interleaving a step of the watcher thread changes only the
\* thread itself and the queue, to which it appends at most one index; it
\* leaves knob_norms, the colours shown, the byte buffer, the state behind the
\* main connection (volumes, player cache, backend calls), the stop flag and
\* the loop position alone; the main loop never appends to the queue and never
\* moves the thread; knob_norms is written only by the dispatch of the main
\* loop, and the stop flag only by the main thread.
C38_WatcherSharesQueueOnly ==
    [][ /\ WatcherStep
           => /\ UNCHANGED <<parserVars, worldVars, facadeVars, lifeVars>>
              /\ UNCHANGED <<pc, knob_norms, last_reapply, leds, shown, sinceKnob, pass,
                             lastPass>>
              /\ UNCHANGED <<had_events, taken, watcher_thread>>
              /\ \/ eventQ' = eventQ /\ pushed' = pushed
                 \/ \E idx \in OutageIndices : /\ eventQ' = Append(eventQ, idx)
                                               /\ pushed' = Append(pushed, idx)
        /\ ~WatcherStep
           => /\ pushed' = pushed
              /\ eventQ' \in {eventQ, <<>>}
        /\ knob_norms' # knob_norms
           => (~WatcherStep /\ pc = "read" /\ call'.op = "dispatch")
        /\ stop_event' # stop_event
           => (~WatcherStep /\ call'.op \in {"_shutdown", "config_check"}) ]_vars

\* C38's case: the thread has put indices on the queue between a dispatch that
\* wrote knob_norms and the reconciliation that will drain them.
C38_Witness ==
    /\ pc = "trigger"
    /\ call.op = "dispatch"
    /\ knob_norms[2] = 4002
    /\ eventQ = <<7, 7>>
    /\ threads[1].pc = "listen"
    /\ threads[1].last = "event"

\* The serial device is away: the loop sleeps or is about to open the port.
Disconnected == pc \in {"backoff", "connect"}

\* C40: the reconciliation pass and the configuration check start only from
\* the connected read loop; while the device is away (in the backoff sleep,
\* and while opening the port fails again) no step runs either of them, their
\* timestamps stand still, nothing is taken from the queue, and the indices the
\* watcher puts are appended to those already waiting.
C40_NothingWhileDisconnected ==
    [][ /\ Disconnected
           => /\ ~(call' # call /\ call'.op \in {"reapply", "config_check"})
              /\ last_reapply' = last_reapply
              /\ last_config_check' = last_config_check
              /\ Len(eventQ') >= Len(eventQ)
              /\ SubSeq(eventQ', 1, Len(eventQ)) = eventQ
              /\ UNCHANGED <<sinkInputs, slider, devices>>
        /\ (call' # call /\ call'.op \in {"reapply", "config_check"})
           => pc = "trigger"
        /\ Len(eventQ') < Len(eventQ)
           => (pc = "trigger" /\ pc' = "read" /\ eventQ' = <<>>) ]_vars

\* C40's case: opening the port has failed again after a first backoff, and
\* the two indices the watcher put meanwhile are still waiting.
C40_Witness ==
    /\ pc = "connect"
    /\ call.op = "sleep"
    /\ now = 2 * RETRY_DELAY
    /\ eventQ = <<7, 7>>
    /\ pushed = <<7, 7>>
    /\ last_reapply = 0
    /\ last_config_check = 0

=============================================================================
